---- MODULE Spec2Model ----
(***************************************************************************)
(* Verification engine of the email verifier platform.                     *)
(*                                                                         *)
(*   backend/verifier1.py        RateLimiter, ImprovedLoginVerifier         *)
(*   backend/services/verifier_service.py  VerifierService                 *)
(*   backend/settings/settings.py          Settings (data files)           *)
(*   backend/verifier2.py                  EmailBounceVerifier             *)
(*                                                                         *)
(* The module holds several specifications over one set of variables:      *)
(*   SpecRate     the rate limiter and the probes' rate-limit prologue     *)
(*   Spec         the service: verify_email, batch tasks, cache, data files*)
(*   SpecBatch    ImprovedLoginVerifier.batch_verify and its workers       *)
(*   SpecProbe    one verify_email call, check by check and probe by probe *)
(*   SpecCache    the lengths of the two result caches                     *)
(*   SpecHistory  the history log of one address                           *)
(*   SpecSmtp     one SMTP probe, MX host by MX host                       *)
(*   SpecLimiter  the RateLimiter methods called one after another          *)
(*   SpecEvict    additions to a result cache that is full or nearly full  *)
(*   SpecBounce   the bounce flow: start_verification, process_responses   *)
(*   SpecBrowser  the browser sessions of the login probes                 *)
(*   SpecWorkers  batch_verify in threaded mode around the shared queues   *)
(*   SpecScratch  the keys of the scratch history file                     *)
(* Each specification leaves the variables of the others unchanged.        *)
(***************************************************************************)
EXTENDS Integers, Sequences, FiniteSets, TLC

(***************************************************************************)
(* Part A.  RateLimiter (verifier1.py 106-195) and the prologue every      *)
(* probe runs before it talks to a domain (verifier1.py 822-829, 937-944,  *)
(* 2383-2390).  Time is a discrete clock; one tick stands for 20 seconds,  *)
(* so the default window of 60 s is 3 ticks and the throttle backoff of    *)
(* 60 s is 3 ticks.                                                        *)
(***************************************************************************)

VARIABLES
    now,              \* datetime.now(), in ticks
    request_history,  \* RateLimiter.request_history: domain -> list of timestamps
    backoff_times,    \* RateLimiter.backoff_times: domain -> backoff_until, NoBackoff when absent
    probe_log,        \* per domain, the times at which a probe request was issued
    rl                \* per prober: where it is in the rate-limit prologue

rateVars == <<now, request_history, backoff_times, probe_log, rl>>

\* RateLimiter.__init__ max_requests (settings rate_limit_max_requests).
max_requests == 2

\* RateLimiter.__init__ time_window (settings rate_limit_time_window), in ticks.
time_window == 3

\* The backoff verify_microsoft_api sets when throttled (60 s), in ticks.
ThrottleBackoff == 3

\* Bounds of the rate-limiter model.
MaxTime == 4
MaxProbes == 3

Domains == {"d1", "d2"}
Probers == {"p1", "p2"}
ProbeKinds == {"smtp", "api", "browser"}
NoBackoff == -1

RECURSIVE SelectSeq2(_, _)
\* The list comprehension of is_rate_limited: the timestamps still in the window.
SelectSeq2(s, t) ==
    IF s = << >> THEN << >>
    ELSE IF t - Head(s) < time_window
         THEN <<Head(s)>> \o SelectSeq2(Tail(s), t)
         ELSE SelectSeq2(Tail(s), t)

\* A limiter that looks at the window only.
is_rate_limited_window(d) == Len(SelectSeq2(request_history[d], now)) >= max_requests

\* RateLimiter.is_rate_limited: the value it returns.
is_rate_limited(d) ==
    IF backoff_times[d] # NoBackoff /\ now < backoff_times[d]
    THEN TRUE
    ELSE Len(SelectSeq2(request_history[d], now)) >= max_requests

\* RateLimiter.is_rate_limited: what it leaves in backoff_times (an expired
\* backoff is deleted).
BackoffAfterCheck(d) ==
    IF backoff_times[d] # NoBackoff /\ ~(now < backoff_times[d])
    THEN [backoff_times EXCEPT ![d] = NoBackoff]
    ELSE backoff_times

\* RateLimiter.is_rate_limited: what it leaves in request_history (old
\* requests are dropped unless the call returned early on an active backoff).
HistoryAfterCheck(d) ==
    IF backoff_times[d] # NoBackoff /\ now < backoff_times[d]
    THEN request_history
    ELSE [request_history EXCEPT ![d] = SelectSeq2(request_history[d], now)]

\* RateLimiter.get_backoff_time: max(0, int(remaining)), 0 when not in backoff.
get_backoff_time(d) ==
    IF backoff_times[d] # NoBackoff
    THEN IF backoff_times[d] - now > 0 THEN backoff_times[d] - now ELSE 0
    ELSE 0

\* RateLimiter.add_request.
add_request(d) == [request_history EXCEPT ![d] = Append(@, now)]

\* RateLimiter.set_backoff.
set_backoff(d, seconds) == [backoff_times EXCEPT ![d] = now + seconds]

\* What GetCredentialType answers with HTTP 200: IfExistsResult (Absent when
\* the key is not there) and ThrottleStatus.  These are an address that
\* exists, one that does not, a throttled request and a body with another
\* IfExistsResult.
AbsentKey == -1
ApiBodies ==
    { [IfExistsResult |-> 0, ThrottleStatus |-> 0],
      [IfExistsResult |-> 1, ThrottleStatus |-> 0],
      [IfExistsResult |-> AbsentKey, ThrottleStatus |-> 1],
      [IfExistsResult |-> 5, ThrottleStatus |-> 0] }

\* The reply of a probe that is not the Microsoft API.
NoReply == [IfExistsResult |-> AbsentKey, ThrottleStatus |-> AbsentKey]

\* verify_microsoft_api 1038-1042: the reply that makes it set a backoff.
Throttled(body) == body.IfExistsResult \notin {0, 1} /\ body.ThrottleStatus = 1

RlIdle == [pc |-> "idle", domain |-> "d1", kind |-> "smtp", limited |-> FALSE, wake |-> 0,
           reply |-> NoReply]

TotalProbes == Len(probe_log["d1"]) + Len(probe_log["d2"])

InitRate ==
    /\ now = 0
    /\ request_history = [d \in Domains |-> << >>]
    /\ backoff_times = [d \in Domains |-> NoBackoff]
    /\ probe_log = [d \in Domains |-> << >>]
    /\ rl = [p \in Probers |-> RlIdle]

\* A probe starts: `if self.rate_limiter.is_rate_limited(domain):`.
RLIsLimited(p, d, k) ==
    /\ rl[p].pc = "idle"
    /\ TotalProbes + Cardinality({q \in Probers : rl[q].pc # "idle"}) < MaxProbes
    /\ rl' = [rl EXCEPT ![p] = [pc |-> IF is_rate_limited(d) THEN "limited" ELSE "record",
                                domain |-> d, kind |-> k,
                                limited |-> is_rate_limited(d), wake |-> 0, reply |-> NoReply]]
    /\ backoff_times' = BackoffAfterCheck(d)
    /\ request_history' = HistoryAfterCheck(d)
    /\ UNCHANGED <<now, probe_log>>

\* `wait_time = self.rate_limiter.get_backoff_time(domain)`, then time.sleep starts.
RLGetBackoff(p) ==
    /\ rl[p].pc = "limited"
    /\ rl' = [rl EXCEPT ![p].pc = "sleeping", ![p].wake = now + get_backoff_time(rl[p].domain)]
    /\ UNCHANGED <<now, request_history, backoff_times, probe_log>>

\* time.sleep(wait_time) returns: no second look at the limiter.
RLWake(p) ==
    /\ rl[p].pc = "sleeping"
    /\ now >= rl[p].wake
    /\ rl' = [rl EXCEPT ![p].pc = "record"]
    /\ UNCHANGED <<now, request_history, backoff_times, probe_log>>

\* `self.rate_limiter.add_request(domain)` and the request the probe then
\* sends.  verify_email_smtp also runs check_catch_all, whose SMTP
\* conversation with the same domain is not recorded (ca = TRUE when catch-all
\* detection is enabled and the domain has MX hosts).
RLRecord(p) ==
    /\ rl[p].pc = "record"
    /\ request_history' = add_request(rl[p].domain)
    /\ \E ca \in BOOLEAN :
         /\ ca => rl[p].kind = "smtp"
         /\ probe_log' = [probe_log EXCEPT ![rl[p].domain] =
                             IF ca THEN Append(Append(@, now), now) ELSE Append(@, now)]
    /\ rl' = [rl EXCEPT ![p].pc = "probing"]
    /\ UNCHANGED <<now, backoff_times>>

\* The probe's reply arrives: for the Microsoft API the body of the response
\* (verify_microsoft_api 991-1012).
RLProbeReply(p, body) ==
    /\ rl[p].pc = "probing"
    /\ IF rl[p].kind = "api" THEN body \in ApiBodies ELSE body = NoReply
    /\ rl' = [rl EXCEPT ![p].pc = "replied", ![p].reply = body]
    /\ UNCHANGED <<now, request_history, backoff_times, probe_log>>

\* The probe returns.  Only the Microsoft API probe sets a backoff, when the
\* reply carries ThrottleStatus = 1 and no IfExistsResult of 0 or 1
\* (verify_microsoft_api 1013-1046).
RLProbeReturn(p) ==
    /\ rl[p].pc = "replied"
    /\ backoff_times' = IF rl[p].kind = "api" /\ Throttled(rl[p].reply)
                        THEN set_backoff(rl[p].domain, ThrottleBackoff)
                        ELSE backoff_times
    /\ rl' = [rl EXCEPT ![p].pc = "idle", ![p].reply = NoReply]
    /\ UNCHANGED <<now, request_history, probe_log>>

Tick ==
    /\ now < MaxTime
    /\ now' = now + 1
    /\ UNCHANGED <<request_history, backoff_times, probe_log, rl>>

NextRate ==
    \/ \E p \in Probers, d \in Domains, k \in ProbeKinds : RLIsLimited(p, d, k)
    \/ \E p \in Probers : RLGetBackoff(p)
    \/ \E p \in Probers : RLWake(p)
    \/ \E p \in Probers : RLRecord(p)
    \/ \E p \in Probers, body \in ApiBodies \cup {NoReply} : RLProbeReply(p, body)
    \/ \E p \in Probers : RLProbeReturn(p)
    \/ Tick


\* Number of requests issued to d in the window of time_window ticks that
\* starts with the i-th request.
InWindow(d, i) ==
    Cardinality({j \in i..Len(probe_log[d]) : probe_log[d][j] - probe_log[d][i] < time_window})

\* Every two successive requests to d are at least W/N apart.
SpacedOut(d) ==
    \A i \in 1..(Len(probe_log[d]) - 1) :
        (probe_log[d][i + 1] - probe_log[d][i]) * max_requests >= time_window

\* C1: for every domain, either successive probe requests are at least W/N
\* apart or no rolling window of W holds more than N probe requests.
RateLimitSafety ==
    \A d \in Domains : SpacedOut(d) \/ \A i \in 1..Len(probe_log[d]) : InWindow(d, i) <= max_requests

(***************************************************************************)
(* Part B.  The verification pipeline (ImprovedLoginVerifier.verify_email, *)
(* verifier1.py 1115-1569), the persisted result files (save_result,       *)
(* Settings.check_email_in_data / add_email_to_data) and the service on    *)
(* top of it (VerifierService, verifier_service.py 191-423).               *)
(***************************************************************************)

VARIABLES
    cfg,            \* the settings in force: SMTP accounts, browser list, feature switches
    th,             \* per thread: position in the code, call arguments and locals
    tasks,          \* VerifierService.verification_tasks: task id -> task record
    bg,             \* locals of _background_verification: results, completed, loop index
    result_cache,   \* VerifierService.result_cache, in insertion order
    lv_cache,       \* ImprovedLoginVerifier.result_cache, of each process
    data_rows,      \* ./data/{Valid,Invalid,Risky,Custom}.csv: rows per category and address
    csv_rows,       \* results/data/{valid,...}_emails.csv: rows per category and address
    returned,       \* per address, the verdicts verify() has returned so far
    pipeline_runs   \* per address, how often the probe strategy was run for it

svcVars == <<cfg, th, tasks, bg, result_cache, lv_cache, data_rows, csv_rows, returned, pipeline_runs>>

VALID == "valid"
INVALID == "invalid"
RISKY == "risky"
CUSTOM == "custom"
Categories == {VALID, INVALID, RISKY, CUSTOM}
Methods == {"auto", "login", "smtp"}

\* VerifierService.max_cache_size.
max_cache_size == 1000

\* Bounds of the service model: addresses per batch, direct calls per request thread.
MaxBatch == 2
MaxCalls == 2
\* Addresses per batch when a request thread runs beside the task.
MaxRaceBatch == 1

\* The addresses of the model, and what the outside world holds for each:
\* whether it matches validate_format's pattern, whether its domain is in
\* D-blacklist.csv, whether it is in skip_domains, whether DNS returns MX
\* hosts for it, and the provider identify_provider derives for it.
AddressBook ==
    [ bad     |-> [address |-> "foo@bar",           domain |-> "bar", format |-> FALSE, blacklisted |-> FALSE, skip |-> FALSE, mx |-> FALSE, provider |-> "none"],
      ms      |-> [address |-> "u@outlook.com",     domain |-> "outlook.com", format |-> TRUE,  blacklisted |-> FALSE, skip |-> FALSE, mx |-> TRUE,  provider |-> "outlook.com"],
      gmail   |-> [address |-> "u@gmail.com",       domain |-> "gmail.com", format |-> TRUE,  blacklisted |-> FALSE, skip |-> FALSE, mx |-> TRUE,  provider |-> "gmail.com"],
      gsuite  |-> [address |-> "u@gsuite.example",  domain |-> "gsuite.example", format |-> TRUE,  blacklisted |-> FALSE, skip |-> FALSE, mx |-> TRUE,  provider |-> "customGoogle"],
      yahoo   |-> [address |-> "u@yahoo.com",       domain |-> "yahoo.com", format |-> TRUE,  blacklisted |-> FALSE, skip |-> FALSE, mx |-> TRUE,  provider |-> "yahoo.com"],
      corp    |-> [address |-> "u@corp.example",    domain |-> "corp.example", format |-> TRUE,  blacklisted |-> FALSE, skip |-> FALSE, mx |-> TRUE,  provider |-> "custom"],
      blocked |-> [address |-> "u@blocked.example", domain |-> "blocked.example", format |-> TRUE,  blacklisted |-> TRUE,  skip |-> FALSE, mx |-> TRUE,  provider |-> "custom"],
      skipped |-> [address |-> "u@example.com",     domain |-> "example.com", format |-> TRUE,  blacklisted |-> FALSE, skip |-> TRUE,  mx |-> TRUE,  provider |-> "custom"],
      nomx    |-> [address |-> "u@nomx.example",    domain |-> "nomx.example", format |-> TRUE,  blacklisted |-> FALSE, skip |-> FALSE, mx |-> FALSE, provider |-> "custom"] ]

AllEmails == DOMAIN AddressBook

\* The addresses the clients of the model submit.
Emails == {"bad", "ms"}

\* The settings the model is run under: the shipped defaults, the defaults
\* with one SMTP account configured, and an empty browser list.
Configs ==
    { [smtp_accounts |-> FALSE, browsers |-> <<"chrome", "edge", "firefox">>, verification_loop_enabled |-> TRUE, microsoft_api |-> TRUE],
      [smtp_accounts |-> TRUE,  browsers |-> <<"chrome", "edge", "firefox">>, verification_loop_enabled |-> TRUE, microsoft_api |-> TRUE],
      [smtp_accounts |-> FALSE, browsers |-> << >>,                           verification_loop_enabled |-> TRUE, microsoft_api |-> TRUE] }

NoResult == [category |-> "none", reason |-> "none", provider |-> "none", method |-> "none"]
Result(c, r, p) == [category |-> c, reason |-> r, provider |-> p, method |-> "none"]

----
\* Probe outcomes.  A probe's reply comes from the network, so every outcome
\* its code can produce is possible.

Undetermined == "Could not determine if email exists (no password prompt or error)"
RedirectedCustom == "Redirected to custom login page"
Accepted == "Email accepted (no rejection or error)"

MicrosoftProviders == {"outlook.com", "hotmail.com", "live.com", "microsoft.com", "office365.com"}

\* _verify_login returns one of these, or raises when the driver cannot be
\* started (_browser_context calls _get_browser_driver outside the try).
\* Google and Yahoo pages are read by _verify_google_email and
\* _verify_yahoo_email (2474-2480); on a page that shows neither a password
\* prompt nor an error a Microsoft address is accepted and any other one is
\* left undetermined (2562-2582).
LoginResults(p) ==
    { Result(VALID, "Email address exists", p),
      Result(INVALID, "Email address does not exist", p) } \cup
    IF p \in MicrosoftProviders
    THEN { Result(VALID, Accepted, p),
           Result(RISKY, "CAPTCHA challenge encountered", p),
           Result(CUSTOM, RedirectedCustom, p),
           Result(CUSTOM, "Redirected to another page", p) }
    ELSE IF p \in {"gmail.com", "customGoogle"}
    THEN { Result(RISKY, "CAPTCHA challenge encountered", p),
           Result(RISKY, "Unknown Google login state", p),
           Result(CUSTOM, "Could not find email input field on login page", p) }
    ELSE IF p = "yahoo.com"
    THEN { Result(RISKY, "Could not determine if Yahoo email exists", p),
           Result(CUSTOM, "Could not find email input field on login page", p) }
    ELSE { Result(RISKY, Undetermined, p),
           Result(RISKY, "CAPTCHA challenge encountered", p),
           Result(CUSTOM, RedirectedCustom, p),
           Result(CUSTOM, "Redirected to another page", p) }

\* verify_email_smtp returns one of these; it catches its network errors.
SmtpResults(d) ==
    { Result(VALID, "Email verified via SMTP", d),
      Result(INVALID, "Email verification failed", d),
      Result(RISKY, "Domain has catch-all configuration", d),
      Result(RISKY, "Mailbox unavailable (may not indicate invalid email)", d) }

\* verify_microsoft_api returns one of these or None.
ApiResults ==
    { Result(VALID, "Email address exists (Microsoft API)", "Microsoft"),
      Result(INVALID, "Email address does not exist (Microsoft API)", "Microsoft") }

\* Only an address that exists ends the probing.
DefinitiveValid(r) == r.category = VALID

\* verify_microsoft_api 1013-1046: what it returns for a body, None when the
\* body has no IfExistsResult of 0 or 1.
ApiVerdict(body) ==
    IF body.IfExistsResult = 0 THEN Result(VALID, "Email address exists (Microsoft API)", "Microsoft")
    ELSE IF body.IfExistsResult = 1 THEN Result(INVALID, "Email address does not exist (Microsoft API)", "Microsoft")
    ELSE NoResult

Definitive(r) == r.category \in {VALID, INVALID}

\* What a strategy ends with: a result it cached and saved, an exception, or
\* a fall off the end of the function (Python's None).
Ok(r) == [kind |-> "ok", result |-> r]
Raise(msg) == [kind |-> "raise", result |-> Result("none", msg, "none")]
ReturnsNone == [kind |-> "none", result |-> NoResult]

DriverError == "WebDriverException"
Unbound == "local variable 'result' referenced before assignment"

\* `return result` after a browser loop: the last Selenium result, or an
\* UnboundLocalError when the loop never ran.
LastResult(last) == IF last = NoResult THEN Raise(Unbound) ELSE Ok(last)

\* The tail of _verify_microsoft_email and _verify_custom_google_email
\* (1313-1325, 1433-1445): SMTP, then the last Selenium result.
SmtpThenLast(d, last) ==
    { IF Definitive(s) THEN Ok(s) ELSE LastResult(last) : s \in SmtpResults(d) }

RECURSIVE MicrosoftLoop(_, _, _, _, _)
\* The browser loop of _verify_microsoft_email (1268-1311) from browser i on.
MicrosoftLoop(browsers, i, p, d, last) ==
    IF i > Len(browsers) THEN SmtpThenLast(d, last)
    ELSE {Raise(DriverError)} \cup
         UNION { IF Definitive(r) THEN {Ok(r)}
                 ELSE IF r.reason \in {Undetermined, RedirectedCustom}
                      THEN {Raise(DriverError)} \cup
                           UNION { IF Definitive(dr) THEN {Ok(dr)}
                                   ELSE IF dr.category = RISKY /\ dr.reason = Undetermined
                                        THEN {Ok(Result(VALID, Accepted, p))}
                                        ELSE MicrosoftLoop(browsers, i + 1, p, d, r)
                                   : dr \in LoginResults(p) }
                      ELSE MicrosoftLoop(browsers, i + 1, p, d, r)
                 : r \in LoginResults(p) }

\* _verify_microsoft_email (1234-1325).
verify_microsoft_email(c, p, d) ==
    (IF c.microsoft_api THEN {Ok(a) : a \in ApiResults} ELSE {})
        \cup MicrosoftLoop(c.browsers, 1, p, d, NoResult)

RECURSIVE GoogleLoop(_, _, _, _, _, _)
\* The browser loop shared by _verify_gmail_email (1352-1385) and
\* _verify_custom_google_email (1404-1445); smtpAfter tells which tail follows.
GoogleLoop(browsers, i, p, d, last, smtpAfter) ==
    IF i > Len(browsers)
    THEN IF smtpAfter THEN SmtpThenLast(d, last) ELSE {LastResult(last)}
    ELSE {Raise(DriverError)} \cup
         UNION { IF Definitive(r) THEN {Ok(r)}
                 ELSE IF r.category = RISKY /\ r.reason = Undetermined
                      THEN {Ok(Result(VALID, Accepted, p))}
                      ELSE GoogleLoop(browsers, i + 1, p, d, r, smtpAfter)
                 : r \in LoginResults(p) }

\* _verify_gmail_email (1327-1385): SMTP, then the browsers.
verify_gmail_email(c, p, d) ==
    {Ok(s) : s \in {x \in SmtpResults(d) : Definitive(x)}}
        \cup GoogleLoop(c.browsers, 1, p, d, NoResult, FALSE)

\* _verify_custom_google_email (1387-1445): the browsers, then SMTP.
verify_custom_google_email(c, p, d) == GoogleLoop(c.browsers, 1, p, d, NoResult, TRUE)

\* _verify_custom_domain_email (1447-1511): SMTP with catch-all detection.
verify_custom_domain_email(c, p, d) ==
    { Ok(Result(VALID, "Email verified via SMTP", "Custom")),
      Ok(Result(RISKY, "Domain has catch-all configuration", "Custom")),
      Ok(Result(RISKY, "Mailbox unavailable (may not indicate invalid email)", "Custom")),
      Ok(Result(INVALID, "Email verification failed", "Custom")) }

RECURSIVE OtherLoop(_, _, _, _)
\* The verification loop of _verify_other_provider_email (1531-1560).
OtherLoop(browsers, i, p, d) ==
    IF i > Len(browsers) THEN {ReturnsNone}
    ELSE {Raise(DriverError)} \cup
         UNION { IF Definitive(r) THEN {Ok(r)}
                 ELSE IF i = Len(browsers)
                      THEN { IF Definitive(s) THEN Ok(s) ELSE Ok(r) : s \in SmtpResults(d) }
                      ELSE OtherLoop(browsers, i + 1, p, d)
                 : r \in LoginResults(p) }

\* _verify_other_provider_email (1513-1569).
verify_other_provider_email(c, p, d) ==
    IF c.verification_loop_enabled THEN OtherLoop(c.browsers, 1, p, d)
    ELSE IF c.browsers = << >> THEN {Raise("list index out of range")}
         ELSE {Raise(DriverError)} \cup {Ok(r) : r \in LoginResults(p)}

\* Step 4 of verify_email (1212-1232): the strategy of the provider.
StrategyOutcomes(c, e) ==
    LET p == AddressBook[e].provider
        d == AddressBook[e].domain IN
    IF p \in MicrosoftProviders THEN verify_microsoft_email(c, p, d)
    ELSE IF p = "gmail.com" THEN verify_gmail_email(c, p, d)
    ELSE IF p = "customGoogle" THEN verify_custom_google_email(c, p, d)
    ELSE IF p = "custom" THEN verify_custom_domain_email(c, p, d)
    ELSE verify_other_provider_email(c, p, d)

----
\* The persisted result files.

\* Settings.check_email_in_data (settings.py 486-507): the first of Valid,
\* Invalid, Risky, Custom that holds the address, or "none".
check_email_in_data(rows, e) ==
    IF rows[VALID][e] > 0 THEN VALID
    ELSE IF rows[INVALID][e] > 0 THEN INVALID
    ELSE IF rows[RISKY][e] > 0 THEN RISKY
    ELSE IF rows[CUSTOM][e] > 0 THEN CUSTOM
    ELSE "none"

\* Settings.add_email_to_data (settings.py 527-534): `exists`, read from the
\* file of the result's own category only.
ExistsInCategory(rows, cat, e) == rows[cat][e] > 0

\* A row appended to the file of category cat.
AppendRow(rows, cat, e) == [rows EXCEPT ![cat][e] = @ + 1]

\* Rows for address e across the four files.
RowsOf(rows, e) == rows[VALID][e] + rows[INVALID][e] + rows[RISKY][e] + rows[CUSTOM][e]

----
\* VerifierService.result_cache: a dict, kept as the sequence of its items in
\* insertion order.

CacheIndex(c, e) == {i \in 1..Len(c) : c[i].email = e}
CacheHas(c, e) == CacheIndex(c, e) # {}
CacheGet(c, e) == c[CHOOSE i \in CacheIndex(c, e) : TRUE].result

\* `self.result_cache[email] = result`: a key already present keeps its place.
CachePut(c, e, r) ==
    IF CacheHas(c, e)
    THEN [i \in 1..Len(c) |-> IF c[i].email = e THEN [email |-> e, result |-> r] ELSE c[i]]
    ELSE Append(c, [email |-> e, result |-> r])

\* remove_count = int(self.max_cache_size * 0.1)
RemoveCount == max_cache_size \div 10

\* An eviction that drops the oldest entry only.
EvictedOne(c) == IF Len(c) >= max_cache_size THEN Tail(c) ELSE c

\* The eviction loop of _add_to_cache (194-199).
Evicted(c) ==
    IF Len(c) >= max_cache_size
    THEN SubSeq(c, (IF RemoveCount < Len(c) THEN RemoveCount ELSE Len(c)) + 1, Len(c))
    ELSE c

\* VerifierService._add_to_cache (191-206).
add_to_cache(c, e, r) == CachePut(Evicted(c), e, r)

----
\* Threads.  A request thread serves POST /api/verify; a task thread runs
\* _background_verification for the task of the same name.

Requests == {"r1"}
TaskIds == {"t1"}
Threads == Requests \cup TaskIds

\* The thread that calls batch_verify, and the terminals it starts:
\* terminal_count of them, threads of its process or processes of their own.
Main == "main"
terminal_count == 2
Terminals == <<"w1", "w2">>
Workers == {Terminals[i] : i \in 1..terminal_count}
AllThreads == Threads \cup Workers \cup {Main}

\* The processes: a terminal process works on the copy of the verifier it was
\* started with.
Procs == {Main} \cup Workers

NoRet == [status |-> "none", email |-> "none", category |-> "none", reason |-> "none", prior |-> {}, probed |-> FALSE]

ThIdle == [pc |-> "idle", email |-> "none", method |-> "none", res |-> NoResult,
           exists |-> FALSE, prior |-> {}, probed |-> FALSE, calls |-> 0, ret |-> NoRet,
           proc |-> Main]

NoTask == [status |-> "none", total |-> 0, completed |-> 0, aliased |-> FALSE,
           end_time |-> "null", emails |-> << >>, method |-> "none"]

BgIdle == [results |-> << >>, completed |-> 0, i |-> 1]

\* The address lists a client may submit: 1..MaxBatch addresses, repeats allowed.
BatchLists == UNION { [1..n -> Emails] : n \in 1..MaxBatch }

ZeroRows == [c \in Categories |-> [e \in AllEmails |-> 0]]

InitStores ==
    /\ th = [t \in AllThreads |-> ThIdle]
    /\ tasks = [t \in TaskIds |-> NoTask]
    /\ bg = [t \in TaskIds |-> BgIdle]
    /\ result_cache = << >>
    /\ lv_cache = [p \in Procs |-> [e \in AllEmails |-> NoResult]]
    /\ data_rows = ZeroRows
    /\ csv_rows = ZeroRows
    /\ returned = [e \in AllEmails |-> {}]
    /\ pipeline_runs = [e \in AllEmails |-> 0]

InitSvc == cfg \in Configs /\ InitStores

\* What the task's "results" entry shows: the empty dict of
\* start_batch_verification until the worker assigns its own dict, and from
\* then on that very dict.
TaskResults(t) == IF tasks[t].aliased THEN bg[t].results ELSE << >>

\* The dict verify_email returns (278-285).
ResultDict(e, r) ==
    [email |-> e, category |-> r.category, reason |-> r.reason, provider |-> r.provider, method |-> r.method]

\* The dict _background_verification stores for an address whose verification
\* raised (356-363).
ErrorDict(e, msg, method) ==
    [email |-> e, category |-> "error", reason |-> msg, provider |-> "unknown", method |-> method]

----
\* ImprovedLoginVerifier.verify_email, run by thread t for th[t].email.  It is
\* entered at "lv_check_data" and left at "lv_return" (th[t].res is the value
\* returned, NoResult for None) or at "lv_raise" (th[t].res.reason is the
\* exception's message).

\* 1131-1140: the address is already in a data file.
LvCheckData(t) ==
    /\ th[t].pc = "lv_check_data"
    /\ LET e == th[t].email
           cat == check_email_in_data(data_rows, e) IN
       th' = [th EXCEPT ![t].pc = IF cat # "none" THEN "lv_return" ELSE "lv_prechecks",
                        ![t].res = IF cat # "none" THEN Result(cat, "Email found in list", "cached")
                                   ELSE NoResult]
    /\ UNCHANGED <<cfg, tasks, bg, result_cache, lv_cache, data_rows, csv_rows, returned, pipeline_runs>>

\* 1147-1206: the result of the format, blacklist, whitelist and MX checks,
\* NoResult when none of them decides.
PrecheckResult(e) ==
    LET a == AddressBook[e] IN
    IF ~a.format THEN Result(INVALID, "Invalid email format", "unknown")
    ELSE IF a.blacklisted THEN Result(INVALID, "Domain is blacklisted", a.domain)
    ELSE IF a.skip THEN Result(VALID, "Domain in whitelist", a.domain)
    ELSE IF ~a.mx THEN Result(INVALID, "Domain has no mail servers", "unknown")
    ELSE NoResult

\* 1142-1206: the verifier's own cache, then the pre-checks.
LvPrechecks(t) ==
    /\ th[t].pc = "lv_prechecks"
    /\ LET e == th[t].email IN
       th' = [th EXCEPT ![t].pc = IF lv_cache[th[t].proc][e] # NoResult THEN "lv_return"
                                  ELSE IF PrecheckResult(e) # NoResult THEN "lv_store"
                                  ELSE "lv_strategy",
                        ![t].res = IF lv_cache[th[t].proc][e] # NoResult THEN lv_cache[th[t].proc][e]
                                   ELSE PrecheckResult(e)]
    /\ UNCHANGED <<cfg, tasks, bg, result_cache, lv_cache, data_rows, csv_rows, returned, pipeline_runs>>

\* 1208-1232 and the strategy functions: the probes run and end in o, one of
\* the outcomes the strategy of the address's provider can end in: a result
\* to cache and save, an exception, or None.
LvStrategy(t, o) ==
    /\ th[t].pc = "lv_strategy"
    /\ o \in StrategyOutcomes(cfg, th[t].email)
    /\ th' = [th EXCEPT ![t].pc = CASE o.kind = "ok" -> "lv_store"
                                    [] o.kind = "raise" -> "lv_raise"
                                    [] OTHER -> "lv_return",
                        ![t].res = o.result,
                        ![t].probed = TRUE]
    /\ pipeline_runs' = [pipeline_runs EXCEPT ![th[t].email] = @ + 1]
    /\ UNCHANGED <<cfg, tasks, bg, result_cache, lv_cache, data_rows, csv_rows, returned>>

\* `with self.lock: self.result_cache[email] = result`
LvStore(t) ==
    /\ th[t].pc = "lv_store"
    /\ lv_cache' = [lv_cache EXCEPT ![th[t].proc][th[t].email] = th[t].res]
    /\ th' = [th EXCEPT ![t].pc = "save_csv"]
    /\ UNCHANGED <<cfg, tasks, bg, result_cache, data_rows, csv_rows, returned, pipeline_runs>>

\* save_result 671-679: the row appended to the category's CSV file.
SaveCsv(t) ==
    /\ th[t].pc = "save_csv"
    /\ csv_rows' = AppendRow(csv_rows, th[t].res.category, th[t].email)
    /\ th' = [th EXCEPT ![t].pc = "add_data_check"]
    /\ UNCHANGED <<cfg, tasks, bg, result_cache, lv_cache, data_rows, returned, pipeline_runs>>

\* add_email_to_data 527-534: read the category's data file.
AddDataCheck(t) ==
    /\ th[t].pc = "add_data_check"
    /\ th' = [th EXCEPT ![t].pc = "add_data_append",
                        ![t].exists = ExistsInCategory(data_rows, th[t].res.category, th[t].email)]
    /\ UNCHANGED <<cfg, tasks, bg, result_cache, lv_cache, data_rows, csv_rows, returned, pipeline_runs>>

\* add_email_to_data 536-545: append unless `exists`; save_result returns.
AddDataAppend(t) ==
    /\ th[t].pc = "add_data_append"
    /\ data_rows' = IF th[t].exists THEN data_rows
                    ELSE AppendRow(data_rows, th[t].res.category, th[t].email)
    /\ th' = [th EXCEPT ![t].pc = "lv_return", ![t].exists = FALSE]
    /\ UNCHANGED <<cfg, tasks, bg, result_cache, lv_cache, csv_rows, returned, pipeline_runs>>

----
\* VerifierService.verify_email (208-285), run by thread t.

\* A task thread that an exception of verify_email ends.
AfterVerifyUncaught(t, status) ==
    IF t \in Requests THEN "idle" ELSE IF status = "raised" THEN "dead" ELSE "bg_store"

\* Where a thread continues when verify_email has returned or raised: a
\* request thread answers its request, a task thread is inside the try of
\* _background_verification (340-368), whose except catches every Exception.
AfterVerify(t, status) == IF t \in Requests THEN "idle" ELSE "bg_store"

\* verify_email is left: with the dict made from r (status "ok") or with an
\* exception whose message is r.reason (status "raised").
Finish(t, status, r) ==
    /\ th' = [th EXCEPT ![t] = [ThIdle EXCEPT
                  !.pc = AfterVerify(t, status),
                  !.calls = th[t].calls,
                  !.email = IF t \in Requests THEN "none" ELSE th[t].email,
                  !.method = IF t \in Requests THEN "none" ELSE th[t].method,
                  !.res = IF t \in Requests THEN NoResult ELSE r,
                  !.ret = [status |-> status, email |-> th[t].email,
                           category |-> r.category, reason |-> r.reason,
                           prior |-> th[t].prior, probed |-> th[t].probed]]]
    /\ returned' = IF status = "ok"
                   THEN [returned EXCEPT ![th[t].email] = @ \cup {r.category}]
                   ELSE returned

NoVerifyEmail == "'EmailBounceVerifier' object has no attribute 'verify_email'"
NoneHasNoDetails == "'NoneType' object has no attribute 'details'"

\* A dispatch that sends method "smtp" to the bounce verifier whether or not
\* an account is configured.
DispatchBounce(c, m) ==
    IF m = "login" \/ m = "auto" THEN "login"
    ELSE IF m = "smtp" THEN "bounce"
    ELSE "fallback"

\* Which verifier the method selects (232, 245, 260): "login", "bounce" or
\* "fallback" (the login verifier again).
Dispatch(c, m) ==
    IF m = "login" \/ m = "auto" THEN "login"
    ELSE IF m = "smtp" /\ c.smtp_accounts THEN "bounce"
    ELSE "fallback"

\* 221-229 and the dispatch on the method (232-264).  A cache hit returns at
\* once; EmailBounceVerifier defines no verify_email, so line 248 raises.
SvcCheckCache(t) ==
    /\ th[t].pc = "svc_check_cache"
    /\ LET e == th[t].email
           m == th[t].method IN
       IF CacheHas(result_cache, e)
       THEN LET r == [CacheGet(result_cache, e) EXCEPT !.method = m] IN
            /\ result_cache' = CachePut(result_cache, e, r)
            /\ Finish(t, "ok", r)
       ELSE IF Dispatch(cfg, m) = "bounce"
            THEN /\ Finish(t, "raised", Result("none", NoVerifyEmail, "none"))
                 /\ UNCHANGED result_cache
            ELSE /\ th' = [th EXCEPT ![t].pc = "lv_check_data"]
                 /\ UNCHANGED <<result_cache, returned>>
    /\ UNCHANGED <<cfg, tasks, bg, lv_cache, data_rows, csv_rows, pipeline_runs>>

\* 235-243, 264-272: the login verifier has returned (or raised); the method
\* is written into the result's details.
SvcAfterLogin(t) ==
    /\ t \in Threads
    /\ th[t].pc \in {"lv_return", "lv_raise"}
    /\ IF th[t].pc = "lv_raise"
       THEN Finish(t, "raised", th[t].res)
       ELSE IF th[t].res = NoResult
            THEN Finish(t, "raised", Result("none", NoneHasNoDetails, "none"))
            ELSE /\ th' = [th EXCEPT ![t].pc = "svc_add_cache", ![t].res.method = "login"]
                 /\ UNCHANGED returned
    /\ UNCHANGED <<cfg, tasks, bg, result_cache, lv_cache, data_rows, csv_rows, pipeline_runs>>

\* 274-285: _add_to_cache, and the dict is returned.
SvcAddCache(t) ==
    /\ th[t].pc = "svc_add_cache"
    /\ result_cache' = add_to_cache(result_cache, th[t].email, th[t].res)
    /\ Finish(t, "ok", th[t].res)
    /\ UNCHANGED <<cfg, tasks, bg, lv_cache, data_rows, csv_rows, pipeline_runs>>

\* POST /api/verify: a request thread calls verify_email(e, m).
ReqCall(t, e, m) ==
    /\ t \in Requests
    /\ th[t].pc = "idle"
    /\ th[t].calls < MaxCalls
    /\ th' = [th EXCEPT ![t].pc = "svc_check_cache", ![t].email = e, ![t].method = m,
                        ![t].res = NoResult, ![t].prior = returned[e],
                        ![t].probed = FALSE, ![t].calls = @ + 1]
    /\ UNCHANGED <<cfg, tasks, bg, result_cache, lv_cache, data_rows, csv_rows, returned, pipeline_runs>>

----
\* Batch tasks (287-375).

\* start_batch_verification: the task record is created and its thread started.
StartBatch(t, emails, m) ==
    /\ t \in TaskIds
    /\ tasks[t].status = "none"
    /\ tasks' = [tasks EXCEPT ![t] = [status |-> "pending", total |-> Len(emails), completed |-> 0,
                                      aliased |-> FALSE, end_time |-> "null",
                                      emails |-> emails, method |-> m]]
    /\ bg' = [bg EXCEPT ![t] = BgIdle]
    /\ th' = [th EXCEPT ![t].pc = "bg_begin"]
    /\ UNCHANGED <<cfg, result_cache, lv_cache, data_rows, csv_rows, returned, pipeline_runs>>

\* 329-336: task["status"] = "running".
BgBegin(t) ==
    /\ th[t].pc = "bg_begin"
    /\ tasks' = [tasks EXCEPT ![t].status = "running"]
    /\ th' = [th EXCEPT ![t].pc = "bg_loop"]
    /\ UNCHANGED <<cfg, bg, result_cache, lv_cache, data_rows, csv_rows, returned, pipeline_runs>>

\* 339-342: the next address of the list is handed to verify_email, or the
\* loop ends.
BgLoop(t) ==
    /\ th[t].pc = "bg_loop"
    /\ IF bg[t].i <= Len(tasks[t].emails)
       THEN LET e == tasks[t].emails[bg[t].i] IN
            th' = [th EXCEPT ![t].pc = "svc_check_cache", ![t].email = e,
                             ![t].method = tasks[t].method, ![t].res = NoResult,
                             ![t].prior = returned[e], ![t].probed = FALSE]
       ELSE th' = [th EXCEPT ![t].pc = "bg_finish"]
    /\ UNCHANGED <<cfg, tasks, bg, result_cache, lv_cache, data_rows, csv_rows, returned, pipeline_runs>>

\* 345, 356-363: what is stored for the address under results[email].
StoredFor(t) ==
    IF th[t].ret.status = "ok" THEN ResultDict(th[t].email, th[t].res)
    ELSE ErrorDict(th[t].email, th[t].res.reason, th[t].method)

\* 345-348, 356-366: results[email] = ..., completed += 1.
BgStore(t) ==
    /\ th[t].pc = "bg_store"
    /\ bg' = [bg EXCEPT ![t].results = (th[t].email :> StoredFor(t)) @@ @,
                        ![t].completed = @ + 1]
    /\ th' = [th EXCEPT ![t] = [ThIdle EXCEPT !.pc = "bg_pub_completed"]]
    /\ UNCHANGED <<cfg, tasks, result_cache, lv_cache, data_rows, csv_rows, returned, pipeline_runs>>

\* The number of stored results in place of the counter.
PublishedLen(t) == Cardinality(DOMAIN bg[t].results)

\* The value written to task["completed"].
PublishedCompleted(t) == bg[t].completed

\* 349, 367: task["completed"] = completed.
BgPublishCompleted(t) ==
    /\ th[t].pc = "bg_pub_completed"
    /\ tasks' = [tasks EXCEPT ![t].completed = PublishedCompleted(t)]
    /\ th' = [th EXCEPT ![t].pc = "bg_pub_results"]
    /\ UNCHANGED <<cfg, bg, result_cache, lv_cache, data_rows, csv_rows, returned, pipeline_runs>>

\* 350, 368: task["results"] = results; the loop goes on.
BgPublishResults(t) ==
    /\ th[t].pc = "bg_pub_results"
    /\ tasks' = [tasks EXCEPT ![t].aliased = TRUE]
    /\ bg' = [bg EXCEPT ![t].i = @ + 1]
    /\ th' = [th EXCEPT ![t].pc = "bg_loop"]
    /\ UNCHANGED <<cfg, result_cache, lv_cache, data_rows, csv_rows, returned, pipeline_runs>>

\* 371: task["status"] = "completed".
BgFinish(t) ==
    /\ th[t].pc = "bg_finish"
    /\ tasks' = [tasks EXCEPT ![t].status = "completed"]
    /\ th' = [th EXCEPT ![t].pc = "bg_end"]
    /\ UNCHANGED <<cfg, bg, result_cache, lv_cache, data_rows, csv_rows, returned, pipeline_runs>>

\* 372-375: task["end_time"] = now; the cache is written to disk.
BgEnd(t) ==
    /\ th[t].pc = "bg_end"
    /\ tasks' = [tasks EXCEPT ![t].end_time = "set"]
    /\ th' = [th EXCEPT ![t].pc = "done"]
    /\ UNCHANGED <<cfg, bg, result_cache, lv_cache, data_rows, csv_rows, returned, pipeline_runs>>

----
\* ImprovedLoginVerifier.batch_verify (verifier1.py 2734-2812) and its
\* terminal workers (2629-2732).

VARIABLES
    batch,          \* the batch_verify call: mode, address list, results, loop index
    email_queue,    \* self.email_queue, the addresses waiting for a terminal thread
    unfinished,     \* email_queue's count of unfinished tasks (put: +1, task_done: -1)
    result_queue,   \* self.result_queue and the queue of each terminal process
    chunks          \* the addresses left in each terminal process's chunk

batchVars == <<batch, email_queue, unfinished, result_queue, chunks>>

\* How often the terminal threads put an address back in the queue.
MaxRequeue == 1

NoBatch == [status |-> "idle", mode |-> "none", emails |-> << >>, results |-> << >>,
            i |-> 1, requeued |-> 0]

InitBatch ==
    /\ batch = NoBatch
    /\ email_queue = << >>
    /\ unfinished = 0
    /\ result_queue = [q \in Procs |-> << >>]
    /\ chunks = [w \in Workers |-> << >>]

NoToDict == "'NoneType' object has no attribute 'to_dict'"

\* f"Verification error: {str(e)}"
VerificationError(msg) ==
    CASE msg = DriverError -> "Verification error: WebDriverException"
      [] msg = Unbound -> "Verification error: local variable 'result' referenced before assignment"
      [] msg = NoToDict -> "Verification error: 'NoneType' object has no attribute 'to_dict'"
      [] msg = NoVerifyEmail -> "Verification error: 'EmailBounceVerifier' object has no attribute 'verify_email'"
      [] msg = NoneHasNoDetails -> "Verification error: 'NoneType' object has no attribute 'details'"

\* An entry of a result queue or of the results dict: the result, None
\* included (category "none").
Entry(e, r) == [email |-> e, category |-> r.category, reason |-> r.reason, provider |-> r.provider]

\* The entry _process_worker puts for an address whose verification raised.
RiskyError(e, msg) ==
    [email |-> e, category |-> RISKY, reason |-> VerificationError(msg), provider |-> "unknown"]

Min(a, b) == IF a < b THEN a ELSE b

\* The mode batch_verify runs in (2747-2749).
ModeOf(emails, multi_terminal_enabled, real_multiple_terminals) ==
    IF multi_terminal_enabled /\ Len(emails) > 1
    THEN IF real_multiple_terminals THEN "process" ELSE "threaded"
    ELSE "single"

\* email_chunks[i - 1] for n terminals (2751-2758).
Chunk(emails, i, n) ==
    LET size == Len(emails) \div n
        first == (i - 1) * size + 1
        last == IF i < n THEN first + size - 1 ELSE Len(emails) IN
    SubSeq(emails, first, last)

\* The terminals batch_verify starts for a list of this length.
Started(emails) == {Terminals[i] : i \in 1..Min(terminal_count, Len(emails))}

IndexOf(w) == CHOOSE i \in 1..terminal_count : Terminals[i] = w

RECURSIVE Drain(_, _)
\* `results[email] = result` for each item of a queue, in order.
Drain(q, results) ==
    IF q = << >> THEN results
    ELSE Drain(Tail(q), (Head(q).email :> Head(q)) @@ results)

\* A thread begins ImprovedLoginVerifier.verify_email(e).
Enter(t, e) ==
    [th[t] EXCEPT !.pc = "lv_check_data", !.email = e, !.res = NoResult,
                  !.prior = returned[e], !.probed = FALSE]

\* A thread is back from verify_email at pc.
Back(t, pc) == [ThIdle EXCEPT !.pc = pc, !.proc = th[t].proc]

\* batch_verify up to the point where it waits or loops (2745-2797, 2805).
BatchVerify(emails, multi_terminal_enabled, real_multiple_terminals) ==
    /\ batch.status = "idle"
    /\ LET mode == ModeOf(emails, multi_terminal_enabled, real_multiple_terminals) IN
       /\ batch' = [NoBatch EXCEPT !.status = "running", !.mode = mode, !.emails = emails]
       /\ email_queue' = IF mode = "threaded" THEN email_queue \o emails ELSE email_queue
       /\ unfinished' = IF mode = "threaded" THEN unfinished + Len(emails) ELSE unfinished
       /\ chunks' = IF mode = "process"
                    THEN [w \in Workers |-> IF w \in Started(emails)
                                            THEN Chunk(emails, IndexOf(w), Cardinality(Started(emails)))
                                            ELSE << >>]
                    ELSE chunks
       /\ lv_cache' = IF mode = "process"
                      THEN [p \in Procs |-> IF p \in Started(emails) THEN lv_cache[Main] ELSE lv_cache[p]]
                      ELSE lv_cache
       /\ th' = [t \in AllThreads |->
                   IF t = Main
                   THEN [th[t] EXCEPT !.pc = CASE mode = "threaded" -> "join"
                                              [] mode = "process" -> "p_join"
                                              [] OTHER -> "s_loop"]
                   ELSE IF t \in Started(emails) /\ mode = "threaded" THEN [th[t] EXCEPT !.pc = "w_get"]
                   ELSE IF t \in Started(emails) /\ mode = "process" THEN [th[t] EXCEPT !.pc = "p_next", !.proc = t]
                   ELSE th[t]]
    /\ UNCHANGED <<cfg, tasks, bg, result_cache, data_rows, csv_rows, returned, pipeline_runs, result_queue>>

\* _terminal_worker 2705-2709, 2720-2723: take an address, or finish on queue.Empty.
WorkerGet(w) ==
    /\ th[w].pc = "w_get"
    /\ IF email_queue = << >>
       THEN /\ th' = [th EXCEPT ![w].pc = "w_exit"]
            /\ UNCHANGED email_queue
       ELSE /\ th' = [th EXCEPT ![w] = Enter(w, Head(email_queue))]
            /\ email_queue' = Tail(email_queue)
    /\ UNCHANGED <<cfg, tasks, bg, result_cache, lv_cache, data_rows, csv_rows, returned, pipeline_runs,
                   batch, unfinished, result_queue, chunks>>

\* _terminal_worker 2711-2718: the result, None included, goes to the result queue.
WorkerPut(w) ==
    /\ w \in Workers /\ th[w].proc = Main
    /\ th[w].pc = "lv_return"
    /\ result_queue' = [result_queue EXCEPT ![Main] = Append(@, Entry(th[w].email, th[w].res))]
    /\ unfinished' = unfinished - 1
    /\ th' = [th EXCEPT ![w] = Back(w, "w_get")]
    /\ UNCHANGED <<cfg, tasks, bg, result_cache, lv_cache, data_rows, csv_rows, returned, pipeline_runs,
                   batch, email_queue, chunks>>

\* _terminal_worker 2725-2732: on an exception the address goes back in the queue.
WorkerRequeue(w) ==
    /\ w \in Workers /\ th[w].proc = Main
    /\ th[w].pc = "lv_raise"
    /\ batch.requeued < MaxRequeue
    /\ email_queue' = Append(email_queue, th[w].email)
    /\ batch' = [batch EXCEPT !.requeued = @ + 1]
    /\ th' = [th EXCEPT ![w] = Back(w, "w_get")]
    /\ UNCHANGED <<cfg, tasks, bg, result_cache, lv_cache, data_rows, csv_rows, returned, pipeline_runs,
                   unfinished, result_queue, chunks>>

\* batch_verify 2799-2804: email_queue.join() returns, the result queue is emptied.
BatchJoin ==
    /\ th[Main].pc = "join"
    /\ unfinished = 0
    /\ batch' = [batch EXCEPT !.status = "returned", !.results = Drain(result_queue[Main], << >>)]
    /\ result_queue' = [result_queue EXCEPT ![Main] = << >>]
    /\ th' = [th EXCEPT ![Main].pc = "idle"]
    /\ UNCHANGED <<cfg, tasks, bg, result_cache, lv_cache, data_rows, csv_rows, returned, pipeline_runs,
                   email_queue, unfinished, chunks>>

\* _process_worker 2640-2644: the next address of the chunk, or the end.
ProcNext(w) ==
    /\ th[w].pc = "p_next"
    /\ IF chunks[w] = << >>
       THEN /\ th' = [th EXCEPT ![w].pc = "p_exit"]
            /\ UNCHANGED chunks
       ELSE /\ th' = [th EXCEPT ![w] = Enter(w, Head(chunks[w]))]
            /\ chunks' = [chunks EXCEPT ![w] = Tail(@)]
    /\ UNCHANGED <<cfg, tasks, bg, result_cache, lv_cache, data_rows, csv_rows, returned, pipeline_runs,
                   batch, email_queue, unfinished, result_queue>>

\* What _process_worker puts in its queue (2647, 2652-2661): the result's
\* dict, or the error entry when verify_email raised or returned None.
ProcessEntry(w) ==
    IF th[w].pc = "lv_raise" THEN RiskyError(th[w].email, th[w].res.reason)
    ELSE IF th[w].res = NoResult THEN RiskyError(th[w].email, NoToDict)
    ELSE Entry(th[w].email, th[w].res)

\* _process_worker 2644-2664.
ProcPut(w) ==
    /\ w \in Workers /\ th[w].proc = w
    /\ th[w].pc \in {"lv_return", "lv_raise"}
    /\ result_queue' = [result_queue EXCEPT ![w] = Append(@, ProcessEntry(w))]
    /\ th' = [th EXCEPT ![w] = Back(w, "p_next")]
    /\ UNCHANGED <<cfg, tasks, bg, result_cache, lv_cache, data_rows, csv_rows, returned, pipeline_runs,
                   batch, email_queue, unfinished, chunks>>

RECURSIVE DrainAll(_, _)
\* 2772-2784: the queues of the processes emptied one after the other.
DrainAll(i, results) ==
    IF i > terminal_count THEN results
    ELSE DrainAll(i + 1, Drain(result_queue[Terminals[i]], results))

\* batch_verify 2768-2784: every process has ended, their queues are read.
ProcJoin ==
    /\ th[Main].pc = "p_join"
    /\ \A w \in Started(batch.emails) : th[w].pc = "p_exit"
    /\ batch' = [batch EXCEPT !.status = "returned", !.results = DrainAll(1, << >>)]
    /\ result_queue' = [q \in Procs |-> IF q \in Workers THEN << >> ELSE result_queue[q]]
    /\ th' = [th EXCEPT ![Main].pc = "idle"]
    /\ UNCHANGED <<cfg, tasks, bg, result_cache, lv_cache, data_rows, csv_rows, returned, pipeline_runs,
                   email_queue, unfinished, chunks>>

\* batch_verify 2805-2812, single terminal: the next address, or the return.
SingleLoop ==
    /\ th[Main].pc = "s_loop"
    /\ IF batch.i <= Len(batch.emails)
       THEN /\ th' = [th EXCEPT ![Main] = Enter(Main, batch.emails[batch.i])]
            /\ UNCHANGED batch
       ELSE /\ th' = [th EXCEPT ![Main].pc = "idle"]
            /\ batch' = [batch EXCEPT !.status = "returned"]
    /\ UNCHANGED <<cfg, tasks, bg, result_cache, lv_cache, data_rows, csv_rows, returned, pipeline_runs,
                   email_queue, unfinished, result_queue, chunks>>

\* batch_verify 2807-2808: results[email] = self.verify_email(email); an
\* exception leaves batch_verify.
SingleStore ==
    /\ th[Main].pc \in {"lv_return", "lv_raise"}
    /\ batch.mode = "single"
    /\ IF th[Main].pc = "lv_raise"
       THEN /\ batch' = [batch EXCEPT !.status = "raised"]
            /\ th' = [th EXCEPT ![Main] = Back(Main, "idle")]
       ELSE /\ batch' = [batch EXCEPT !.results = (th[Main].email :> Entry(th[Main].email, th[Main].res)) @@ @,
                                      !.i = @ + 1]
            /\ th' = [th EXCEPT ![Main] = Back(Main, "s_loop")]
    /\ UNCHANGED <<cfg, tasks, bg, result_cache, lv_cache, data_rows, csv_rows, returned, pipeline_runs,
                   email_queue, unfinished, result_queue, chunks>>

----
\* Part C.  One verify_email call at a time, followed check by check and
\* probe by probe: what it looks up, in which order, and which probe decides.

VARIABLES lists, world, pv

probeVars == <<lists, world, pv>>

\* Bounds: calls followed, and edits of the domain lists between them.
MaxProbeCalls == 2
MaxListEdits == 1

DomainOf(e) == AddressBook[e].domain

\* The skip list VerifierService builds before it adds the whitelist file.
DefaultSkipDomains == {"example.com", "test.com", "domain.com", "yourdomain.com", "mydomain.com"}

\* D-blacklist.csv and D-WhiteList.csv as Settings reads them, and
\* ImprovedLoginVerifier.skip_domains, filled once by the constructor.
InitLists ==
    [ blacklist    |-> {DomainOf(e) : e \in {x \in AllEmails : AddressBook[x].blacklisted}},
      whitelist    |-> {},
      skip_domains |-> DefaultSkipDomains ]

\* The domains that accept mail for any local part, when there are any.
CatchAllDomains == {"gsuite.example", "corp.example", "example.com"}

\* What the network holds and whether the catch_all_detection setting is on.
Worlds == [catch_all : {{}, CatchAllDomains}, catch_all_detection : BOOLEAN]

\* The settings the probes are followed under.
ProbeConfigs ==
    {c \in Configs : ~c.smtp_accounts} \cup
    { [smtp_accounts |-> FALSE, browsers |-> <<"chrome", "edge", "firefox">>, verification_loop_enabled |-> TRUE,  microsoft_api |-> FALSE],
      [smtp_accounts |-> FALSE, browsers |-> <<"chrome", "edge", "firefox">>, verification_loop_enabled |-> FALSE, microsoft_api |-> TRUE] }

\* got is what the latest probe of the call returned; valid_result and
\* random_result are the locals of check_microsoft_api_catch_all while it runs.
PvIdle == [pc |-> "idle", entry |-> "none", email |-> "none", i |-> 1, last |-> NoResult,
           res |-> NoResult, trace |-> << >>, calls |-> 0, edits |-> 0,
           got |-> NoResult, valid_result |-> NoResult, random_result |-> NoResult]

\* The call moves on to pc after the check or probe ev.
Goto(pc, ev) == [pv EXCEPT !.pc = pc, !.trace = Append(@, ev)]

\* The check or probe ev decides: r is the result of the call.
Decide(r, pc, ev) == [pv EXCEPT !.pc = pc, !.res = r, !.trace = Append(@, ev)]

\* check_catch_all (779-805): the random local part is probed when the
\* setting is on, and accepted by a domain that accepts every local part.
check_catch_all(d) == world.catch_all_detection /\ d \in world.catch_all

\* What the server answers to RCPT TO for the address itself.
SmtpReplies(d) ==
    IF d \in world.catch_all THEN {"deliverable", "unavailable"}
    ELSE {"deliverable", "unavailable", "rejected"}

\* The verdict table of verify_email_smtp (842-887) and of
\* _verify_custom_domain_email (1465-1500).
SmtpVerdict(reply, is_catch_all, p) ==
    IF reply = "deliverable" /\ is_catch_all THEN Result(RISKY, "Domain has catch-all configuration", p)
    ELSE IF reply = "deliverable" THEN Result(VALID, "Email verified via SMTP", p)
    ELSE IF reply = "unavailable" THEN Result(RISKY, "Mailbox unavailable (may not indicate invalid email)", p)
    ELSE Result(INVALID, "Email verification failed", p)

\* The strategy verify_email dispatches to (1215-1232).
StrategyOf(e) ==
    LET p == AddressBook[e].provider IN
    IF p \in MicrosoftProviders THEN "microsoft"
    ELSE IF p = "gmail.com" THEN "gmail"
    ELSE IF p = "customGoogle" THEN "custom_google"
    ELSE IF p = "custom" THEN "custom_domain"
    ELSE "other"

\* A strategy that starts every provider but custom domains at SMTP.
FirstStepSmtp(c, e) == IF StrategyOf(e) = "custom_domain" THEN "custom_domain" ELSE "gmail"

\* Where a strategy starts: the API for Microsoft, SMTP for Gmail and custom
\* domains, the browsers for the others.
FirstStep(c, e) ==
    LET s == StrategyOf(e) IN
    IF s = "custom_google" THEN "browser"
    ELSE IF s = "other" THEN IF c.verification_loop_enabled THEN "browser" ELSE "once"
    ELSE s

PvOnly == UNCHANGED <<rateVars, batchVars, svcVars, lists, world>>

\* POST /api/verify reaches VerifierService.verify_email (entry "service");
\* batch_verify calls ImprovedLoginVerifier.verify_email itself ("verifier").
\* The calls followed are calls for one address.
PvCall(e, entry) ==
    /\ pv.pc = "idle"
    /\ pv.calls < MaxProbeCalls
    /\ pv.calls = 0 \/ e = pv.email
    /\ pv' = [PvIdle EXCEPT !.pc = IF entry = "service" THEN "service_cache" ELSE "check_data",
                            !.entry = entry, !.email = e,
                            !.calls = pv.calls + 1, !.edits = pv.edits]
    /\ PvOnly

\* VerifierService.verify_email 221-229: the service's cache.
PvServiceCache ==
    /\ pv.pc = "service_cache"
    /\ IF CacheHas(result_cache, pv.email)
       THEN LET r == [CacheGet(result_cache, pv.email) EXCEPT !.method = "auto"] IN
            /\ result_cache' = CachePut(result_cache, pv.email, r)
            /\ pv' = Decide(r, "done", "service_cache")
       ELSE /\ pv' = Goto("check_data", "service_cache")
            /\ UNCHANGED result_cache
    /\ UNCHANGED <<rateVars, batchVars, lists, world,
                   cfg, th, tasks, bg, lv_cache, data_rows, csv_rows, returned, pipeline_runs>>

\* 1131-1140: the persisted data files.
PvCheckData ==
    /\ pv.pc = "check_data"
    /\ LET cat == check_email_in_data(data_rows, pv.email) IN
       pv' = IF cat # "none" THEN Decide(Result(cat, "Email found in list", "cached"), "return", "data_files")
             ELSE Goto("verifier_cache", "data_files")
    /\ PvOnly

\* 1142-1145: the verifier's own cache.
PvVerifierCache ==
    /\ pv.pc = "verifier_cache"
    /\ pv' = IF lv_cache[Main][pv.email] # NoResult
             THEN Decide(lv_cache[Main][pv.email], "return", "verifier_cache")
             ELSE Goto("format", "verifier_cache")
    /\ PvOnly

\* 1147-1159: validate_format.
PvFormat ==
    /\ pv.pc = "format"
    /\ pv' = IF ~AddressBook[pv.email].format
             THEN Decide(Result(INVALID, "Invalid email format", "unknown"), "store", "format")
             ELSE Goto("blacklist", "format")
    /\ PvOnly

\* 1164-1176: the blacklist, read from its file at every call.
PvBlacklist ==
    /\ pv.pc = "blacklist"
    /\ pv' = IF DomainOf(pv.email) \in lists.blacklist
             THEN Decide(Result(INVALID, "Domain is blacklisted", DomainOf(pv.email)), "store", "blacklist")
             ELSE Goto("whitelist", "blacklist")
    /\ PvOnly

\* 1178-1190: the whitelist, as skip_domains holds it.
PvWhitelist ==
    /\ pv.pc = "whitelist"
    /\ pv' = IF DomainOf(pv.email) \in lists.skip_domains
             THEN Decide(Result(VALID, "Domain in whitelist", DomainOf(pv.email)), "store", "whitelist")
             ELSE Goto("mx", "whitelist")
    /\ PvOnly

\* 1192-1232: the MX lookup, then the dispatch on the provider.
PvMx ==
    /\ pv.pc = "mx"
    /\ pv' = IF ~AddressBook[pv.email].mx
             THEN Decide(Result(INVALID, "Domain has no mail servers", "unknown"), "store", "dns")
             ELSE Goto(FirstStep(cfg, pv.email), "dns")
    /\ PvOnly

\* A call leaves by an exception whose message is msg.
Raised(msg, ev) == Decide(Result("none", msg, "none"), "raise", ev)

\* What _verify_login gives for one browser: a result, or no result at all
\* when the driver cannot be started.
BrowserReplies(p) == LoginResults(p) \cup {NoResult}

\* The answer of check_microsoft_api_catch_all (912-917): both addresses exist.
check_microsoft_api_catch_all(valid_result, random_result) ==
    /\ valid_result # NoResult /\ valid_result.category = VALID
    /\ random_result # NoResult /\ random_result.category = VALID

\* _verify_microsoft_email 1249-1250: check_microsoft_api_catch_all (889-911)
\* asks the API about admin@ and about a random local part; with the
\* microsoft_api setting off verify_microsoft_api gives None for both.
PvApiCatchAll(valid_result, random_result) ==
    /\ pv.pc = "microsoft"
    /\ IF cfg.microsoft_api
       THEN /\ valid_result \in ApiResults \cup {NoResult}
            /\ random_result \in ApiResults \cup {NoResult}
            /\ pv' = [Goto("catch_all", "api") EXCEPT !.valid_result = valid_result,
                                                     !.random_result = random_result]
       ELSE /\ valid_result = NoResult /\ random_result = NoResult
            /\ pv' = [pv EXCEPT !.pc = "catch_all"]
    /\ PvOnly

\* 912-917 and 1250-1257: on a catch-all answer the API is not asked about
\* the address and the browsers follow.
PvApiCatchAllReturn ==
    /\ pv.pc = "catch_all"
    /\ pv' = [pv EXCEPT !.pc = IF check_microsoft_api_catch_all(pv.valid_result, pv.random_result)
                                THEN "browser" ELSE "api",
                         !.valid_result = NoResult, !.random_result = NoResult]
    /\ PvOnly

\* 1257-1266: verify_microsoft_api (919-1052), which returns None at once
\* when the microsoft_api setting is off.
PvApi(r) ==
    /\ pv.pc = "api"
    /\ IF cfg.microsoft_api
       THEN /\ r \in ApiResults \cup {NoResult}
            /\ pv' = [(IF r # NoResult THEN Decide(r, "store", "api") ELSE Goto("browser", "api"))
                          EXCEPT !.got = r]
       ELSE /\ r = NoResult
            /\ pv' = [pv EXCEPT !.pc = "browser"]
    /\ PvOnly

\* One turn of a strategy's browser loop (1268-1281, 1352-1385, 1404-1431,
\* 1533-1543): _verify_login with browser pv.i.
PvBrowser(r) ==
    /\ pv.pc = "browser"
    /\ pv.i <= Len(cfg.browsers)
    /\ r \in BrowserReplies(AddressBook[pv.email].provider)
    /\ LET s == StrategyOf(pv.email)
           again == [pv EXCEPT !.i = @ + 1, !.last = r, !.got = r, !.trace = Append(@, "browser")] IN
       pv' = IF r = NoResult THEN Raised(DriverError, "browser")
             ELSE IF Definitive(r) THEN [Decide(r, "store", "browser") EXCEPT !.got = r]
             ELSE IF s = "microsoft"
                  THEN IF r.reason \in {Undetermined, RedirectedCustom}
                       THEN [again EXCEPT !.pc = "direct", !.i = pv.i]
                       ELSE again
             ELSE IF s = "other"
                  THEN IF pv.i = Len(cfg.browsers)
                       THEN [again EXCEPT !.pc = "smtp", !.i = pv.i]
                       ELSE again
             ELSE IF r.category = RISKY /\ r.reason = Undetermined
                  THEN [Decide(Result(VALID, Accepted, r.provider), "store", "browser") EXCEPT !.got = r]
                  ELSE again
    /\ PvOnly

\* 1283-1311: the login at login.live.com, with the next browser.
PvDirect(r) ==
    /\ pv.pc = "direct"
    /\ r \in BrowserReplies(AddressBook[pv.email].provider)
    /\ pv' = IF r = NoResult THEN Raised(DriverError, "browser")
             ELSE IF Definitive(r) THEN [Decide(r, "store", "browser") EXCEPT !.got = r]
             ELSE IF r.category = RISKY /\ r.reason = Undetermined
                  THEN [Decide(Result(VALID, Accepted, r.provider), "store", "browser") EXCEPT !.got = r]
                  ELSE [pv EXCEPT !.pc = "browser", !.i = @ + 1, !.got = r, !.trace = Append(@, "browser")]
    /\ PvOnly

\* The browser loop is over: SMTP follows (1313, 1433), or the last Selenium
\* result is returned (1380-1385), or the function ends (1560).
PvLoopEnd ==
    /\ pv.pc = "browser"
    /\ pv.i > Len(cfg.browsers)
    /\ LET s == StrategyOf(pv.email) IN
       pv' = IF s \in {"microsoft", "custom_google"} THEN [pv EXCEPT !.pc = "smtp"]
             ELSE IF s = "other" THEN [pv EXCEPT !.pc = "return"]
             ELSE IF pv.last = NoResult THEN [pv EXCEPT !.pc = "raise", !.res = Result("none", Unbound, "none")]
             ELSE [pv EXCEPT !.pc = "store", !.res = pv.last]
    /\ PvOnly

\* 1562-1569: no verification loop, the first browser once.
PvOnce(r) ==
    /\ pv.pc = "once"
    /\ r \in BrowserReplies(AddressBook[pv.email].provider)
    /\ pv' = IF cfg.browsers = << >>
             THEN [pv EXCEPT !.pc = "raise", !.res = Result("none", "list index out of range", "none")]
             ELSE IF r = NoResult THEN Raised(DriverError, "browser")
             ELSE [Decide(r, "store", "browser") EXCEPT !.got = r]
    /\ PvOnly

\* verify_email_smtp where the strategies call it: first for Gmail (1344),
\* after the browsers elsewhere (1314, 1434, 1547).
PvSmtp(reply) ==
    /\ pv.pc \in {"gmail", "smtp"}
    /\ reply \in SmtpReplies(DomainOf(pv.email))
    /\ LET d == DomainOf(pv.email)
           s == SmtpVerdict(reply, check_catch_all(d), d) IN
       pv' = [(IF Definitive(s) THEN Decide(s, "store", "smtp")
               ELSE IF pv.pc = "gmail" THEN Goto("browser", "smtp")
               ELSE IF pv.last = NoResult THEN Raised(Unbound, "smtp")
               ELSE Decide(pv.last, "store", "smtp")) EXCEPT !.got = s]
    /\ PvOnly

\* _verify_custom_domain_email (1447-1511): SMTP with catch-all detection.
PvCustomDomain(reply) ==
    /\ pv.pc = "custom_domain"
    /\ reply \in SmtpReplies(DomainOf(pv.email))
    /\ LET s == SmtpVerdict(reply, check_catch_all(DomainOf(pv.email)), "Custom") IN
       pv' = [Decide(s, "store", "smtp") EXCEPT !.got = s]
    /\ PvOnly

\* `self.result_cache[email] = result` and save_result(result).
PvStore ==
    /\ pv.pc = "store"
    /\ lv_cache' = [lv_cache EXCEPT ![Main][pv.email] = pv.res]
    /\ csv_rows' = AppendRow(csv_rows, pv.res.category, pv.email)
    /\ data_rows' = IF ExistsInCategory(data_rows, pv.res.category, pv.email) THEN data_rows
                    ELSE AppendRow(data_rows, pv.res.category, pv.email)
    /\ pv' = [pv EXCEPT !.pc = "return"]
    /\ UNCHANGED <<rateVars, batchVars, lists, world,
                   cfg, th, tasks, bg, result_cache, returned, pipeline_runs>>

\* ImprovedLoginVerifier.verify_email is left; VerifierService.verify_email
\* (235-243, 274-285) writes the method and caches what it got.
PvReturn ==
    /\ pv.pc \in {"return", "raise"}
    /\ IF pv.entry = "service" /\ pv.pc = "return"
       THEN IF pv.res = NoResult
            THEN /\ pv' = [pv EXCEPT !.pc = "done", !.res = Result("none", NoneHasNoDetails, "none")]
                 /\ UNCHANGED result_cache
            ELSE /\ pv' = [pv EXCEPT !.pc = "done", !.res.method = "login"]
                 /\ result_cache' = add_to_cache(result_cache, pv.email, [pv.res EXCEPT !.method = "login"])
       ELSE /\ pv' = [pv EXCEPT !.pc = "done"]
            /\ UNCHANGED result_cache
    /\ UNCHANGED <<rateVars, batchVars, lists, world,
                   cfg, th, tasks, bg, lv_cache, data_rows, csv_rows, returned, pipeline_runs>>

\* The caller has the result; the next call may start.
PvDone ==
    /\ pv.pc = "done"
    /\ pv' = [PvIdle EXCEPT !.email = pv.email, !.calls = pv.calls, !.edits = pv.edits]
    /\ PvOnly

\* POST /api/domains/blacklist: a row appended to D-blacklist.csv.
AddBlacklistedDomain(d) ==
    /\ pv.pc = "idle"
    /\ pv.edits < MaxListEdits
    /\ lists' = [lists EXCEPT !.blacklist = @ \cup {d}]
    /\ pv' = [pv EXCEPT !.edits = @ + 1]
    /\ UNCHANGED <<rateVars, batchVars, svcVars, world>>

\* POST /api/domains/whitelist: a row appended to D-WhiteList.csv.
AddWhitelistedDomain(d) ==
    /\ pv.pc = "idle"
    /\ pv.edits < MaxListEdits
    /\ lists' = [lists EXCEPT !.whitelist = @ \cup {d}]
    /\ pv' = [pv EXCEPT !.edits = @ + 1]
    /\ UNCHANGED <<rateVars, batchVars, svcVars, world>>

\* VerifierService.reload_settings (1005-1023): skip_domains is rebuilt.
ReloadSettings ==
    /\ pv.pc = "idle"
    /\ lists' = [lists EXCEPT !.skip_domains = DefaultSkipDomains \cup lists.whitelist]
    /\ UNCHANGED <<rateVars, batchVars, svcVars, world, pv>>

\* The domains an operator lists while the service runs.
ListedLater == {"corp.example"}

InitProbeIdle ==
    /\ lists = InitLists
    /\ world = [catch_all |-> {}, catch_all_detection |-> TRUE]
    /\ pv = PvIdle

----
\* Part D.  How many entries the two result caches hold.  Every call is for
\* an address not verified before, so only the lengths of the dicts matter.

VARIABLES cache_len, lv_cache_len, adder

cacheVars == <<cache_len, lv_cache_len, adder>>

\* Bound: verifications followed.
MaxVerifies == 1002

\* The entries verification_cache.json holds when the service starts.
LoadedSizes == {0, max_cache_size - 1}

\* _load_cache (147-167) puts every entry of the file in result_cache;
\* ImprovedLoginVerifier starts with an empty dict (verifier1.py 236).
InitCache ==
    /\ cache_len \in LoadedSizes
    /\ lv_cache_len = 0
    /\ adder = [t \in Threads |-> "idle"]

InitCacheIdle ==
    /\ cache_len = 0
    /\ lv_cache_len = 0
    /\ adder = [t \in Threads |-> "idle"]

\* The length the eviction loop of _add_to_cache (194-199) leaves.
LenAfterEviction(n) ==
    IF n >= max_cache_size THEN (IF n > RemoveCount THEN n - RemoveCount ELSE 0) ELSE n

\* ImprovedLoginVerifier.verify_email stores its result:
\* `self.result_cache[email] = result`, nothing is ever removed.
CvVerify(t) ==
    /\ adder[t] = "idle"
    /\ lv_cache_len < MaxVerifies
    /\ lv_cache_len' = lv_cache_len + 1
    /\ adder' = [adder EXCEPT ![t] = "add"]
    /\ UNCHANGED cache_len

\* _add_to_cache 194-199: the length is looked at and the oldest go.
CvEvict(t) ==
    /\ adder[t] = "add"
    /\ cache_len' = LenAfterEviction(cache_len)
    /\ adder' = [adder EXCEPT ![t] = "insert"]
    /\ UNCHANGED lv_cache_len

\* _add_to_cache 202: `self.result_cache[email] = result`.
CvInsert(t) ==
    /\ adder[t] = "insert"
    /\ cache_len' = cache_len + 1
    /\ adder' = [adder EXCEPT ![t] = "idle"]
    /\ UNCHANGED lv_cache_len

----
\* Part E.  The history log of one address: the list in memory, the scratch
\* file temp_history.json and the per-category history files, as the
\* workers that verify the address write them.

VARIABLES verification_history, temp_history, history_files, hw

histVars == <<verification_history, temp_history, history_files, hw>>

\* Bound: verify_email calls followed, over all workers.
MaxHistCalls == 2

\* The address under verification and the verdicts its probes can end in.
HistEmail == "ms"
HistCategories == {VALID, RISKY}

Event(w, n, what) == [by |-> w, call |-> n, what |-> what]

\* A history file that has no key for the address.
Absent == << Event("none", 0, "absent") >>

Events(s) == IF s = Absent THEN {} ELSE {s[i] : i \in 1..Len(s)}

HwIdle == [pc |-> "idle", call |-> 0, ev |-> "none", after |-> "none", category |-> "none",
           temp_copy |-> Absent, mine |-> {}]

InitHistory ==
    /\ verification_history = << >>
    /\ temp_history = Absent
    /\ history_files = [c \in HistCategories |-> Absent]
    /\ hw = [w \in Workers |-> HwIdle]

HistCalls == hw[Terminals[1]].call + hw[Terminals[2]].call

HistKeep == UNCHANGED <<cfg, th, tasks, bg, result_cache, returned, pipeline_runs>>

\* add_to_history(email, what) is called; pc is where the caller goes on.
AddToHistory(w, what, pc) == [hw[w] EXCEPT !.pc = "add", !.ev = what, !.after = pc]

\* verify_email 1125-1129: the list in memory is reset, "Verification started".
HCall(w) ==
    /\ hw[w].pc = "idle"
    /\ HistCalls < MaxHistCalls
    /\ verification_history' = << >>
    /\ hw' = [hw EXCEPT ![w] = [AddToHistory(w, "Verification started", "check")
                                   EXCEPT !.call = @ + 1, !.mine = {}, !.category = "none"]]
    /\ UNCHANGED <<temp_history, history_files, lv_cache, data_rows, csv_rows>>
    /\ HistKeep

\* add_to_history 560-571 and _save_history_event 589-593: the event is
\* appended to the list in memory and temp_history.json is read.
HAppend(w) ==
    /\ hw[w].pc = "add"
    /\ LET e == Event(w, hw[w].call, hw[w].ev) IN
       /\ verification_history' = Append(verification_history, e)
       /\ hw' = [hw EXCEPT ![w].pc = "write_temp", ![w].temp_copy = temp_history,
                           ![w].mine = @ \cup {e}]
    /\ UNCHANGED <<temp_history, history_files, lv_cache, data_rows, csv_rows>>
    /\ HistKeep

\* _save_history_event 595-603: the file is rewritten from what was read.
HWriteTemp(w) ==
    /\ hw[w].pc = "write_temp"
    /\ temp_history' = Append(IF hw[w].temp_copy = Absent THEN << >> ELSE hw[w].temp_copy,
                              Event(w, hw[w].call, hw[w].ev))
    /\ hw' = [hw EXCEPT ![w].pc = hw[w].after, ![w].temp_copy = Absent]
    /\ UNCHANGED <<verification_history, history_files, lv_cache, data_rows, csv_rows>>
    /\ HistKeep

\* verify_email 1131-1145: the data files, then the verifier's cache.
HCheck(w) ==
    /\ hw[w].pc = "check"
    /\ LET cat == check_email_in_data(data_rows, HistEmail) IN
       hw' = [hw EXCEPT ![w] =
                 IF cat # "none"
                 THEN [AddToHistory(w, "Email found in list - using cached result", "return")
                          EXCEPT !.category = cat]
                 ELSE IF lv_cache[Main][HistEmail] # NoResult
                      THEN [hw[w] EXCEPT !.pc = "return", !.category = lv_cache[Main][HistEmail].category]
                      ELSE [hw[w] EXCEPT !.pc = "verdict"]]
    /\ UNCHANGED <<verification_history, temp_history, history_files, lv_cache, data_rows, csv_rows>>
    /\ HistKeep

\* The pre-checks and probes end in a verdict of category c and log it.
HVerdict(w, c) ==
    /\ hw[w].pc = "verdict"
    /\ hw' = [hw EXCEPT ![w] = [AddToHistory(w, "Verification result", "store") EXCEPT !.category = c]]
    /\ UNCHANGED <<verification_history, temp_history, history_files, lv_cache, data_rows, csv_rows>>
    /\ HistKeep

\* `self.result_cache[email] = result`, then save_result 671-682: the CSV
\* row and add_email_to_data.
HStore(w) ==
    /\ hw[w].pc = "store"
    /\ lv_cache' = [lv_cache EXCEPT ![Main][HistEmail] = Result(hw[w].category, "Verification result", "none")]
    /\ csv_rows' = AppendRow(csv_rows, hw[w].category, HistEmail)
    /\ data_rows' = IF ExistsInCategory(data_rows, hw[w].category, HistEmail) THEN data_rows
                    ELSE AppendRow(data_rows, hw[w].category, HistEmail)
    /\ hw' = [hw EXCEPT ![w].pc = "save_history"]
    /\ UNCHANGED <<verification_history, temp_history, history_files>>
    /\ HistKeep

\* save_history 619-631: `history[email] = self.verification_history[email]`
\* in the file of the verdict's category.
HSaveHistory(w) ==
    /\ hw[w].pc = "save_history"
    /\ history_files' = [history_files EXCEPT ![hw[w].category] = verification_history]
    /\ hw' = [hw EXCEPT ![w].pc = "move"]
    /\ UNCHANGED <<verification_history, temp_history, lv_cache, data_rows, csv_rows>>
    /\ HistKeep

\* _move_from_temp_history 650-654: temp_history.json is read.
HMoveRead(w) ==
    /\ hw[w].pc = "move"
    /\ hw' = [hw EXCEPT ![w].pc = IF temp_history = Absent THEN "return" ELSE "move_write"]
    /\ UNCHANGED <<verification_history, temp_history, history_files, lv_cache, data_rows, csv_rows>>
    /\ HistKeep

\* _move_from_temp_history 655-660: the file is rewritten without the address.
HMoveWrite(w) ==
    /\ hw[w].pc = "move_write"
    /\ temp_history' = Absent
    /\ hw' = [hw EXCEPT ![w].pc = "return"]
    /\ UNCHANGED <<verification_history, history_files, lv_cache, data_rows, csv_rows>>
    /\ HistKeep

\* verify_email returns its result.
HReturn(w) ==
    /\ hw[w].pc = "return"
    /\ hw' = [hw EXCEPT ![w] = [HwIdle EXCEPT !.call = hw[w].call]]
    /\ UNCHANGED <<verification_history, temp_history, history_files, lv_cache, data_rows, csv_rows>>
    /\ HistKeep

----
\* Part F.  The SMTP probe: verify_email_smtp (807-887) and the conversation
\* of verify_smtp with the domain's MX hosts (689-777), host by host and
\* attempt by attempt.  The rate-limit prologue is Part A's.

VARIABLES sm

smtpVars == <<sm>>

\* The number of MX hosts a domain has.
MaxMx == 2

\* verify_smtp's max_retries.
max_retries == 3

\* What an attempt at a host ends with: a reply to RCPT TO and its code, a
\* timeout or refused connection, or another socket or SMTP error.
RcptCodes == {250, 550, 451}
Attempts ==
    [kind : {"rcpt"}, code : RcptCodes] \cup [kind : {"network", "smtp_error"}, code : {0}]

NoReason == "None"
SmtpResult == [is_deliverable |-> FALSE, reason |-> NoReason, mx_used |-> 0]

SmIdle == [pc |-> "idle", mx_servers |-> 0, is_catch_all |-> FALSE, mx |-> 1, retry_count |-> 0,
           wait_time |-> 0, sleeps |-> [h \in 1..MaxMx |-> << >>], exhausted |-> {},
           seen550 |-> FALSE, result |-> SmtpResult, verdict |-> NoResult]

InitSmtp == sm = SmIdle

\* A probe that takes 550 for one more SMTP error and goes to the next host.
RcptReplyStrict(result, code, mx) ==
    IF code = 250
    THEN [result |-> [result EXCEPT !.is_deliverable = TRUE, !.mx_used = mx], then |-> "return"]
    ELSE [result |-> [result EXCEPT !.reason = "SMTP Error", !.mx_used = mx], then |-> "break"]

\* verify_smtp 739-758: what the reply to RCPT TO makes of the result, and
\* whether the function returns or leaves the host.
RcptReply(result, code, mx) ==
    IF code = 250
    THEN [result |-> [result EXCEPT !.is_deliverable = TRUE, !.mx_used = mx], then |-> "return"]
    ELSE IF code = 550
    THEN [result |-> [result EXCEPT !.reason = "Mailbox unavailable", !.mx_used = mx], then |-> "return"]
    ELSE [result |-> [result EXCEPT !.reason = "SMTP Error", !.mx_used = mx], then |-> "break"]

\* The for loop of verify_smtp goes to the next host, or is over.
NextHost(s) ==
    IF s.mx < s.mx_servers
    THEN [s EXCEPT !.pc = "connect", !.mx = @ + 1, !.retry_count = 0]
    ELSE [s EXCEPT !.pc = "end"]

\* verify_email_smtp 849-887 reads verify_smtp's result.
SmtpReply(result) ==
    IF result.is_deliverable THEN "deliverable"
    ELSE IF result.reason = "Mailbox unavailable" THEN "unavailable"
    ELSE "rejected"

\* verify_email_smtp 832-847: the MX lookup and check_catch_all.
SmCall(n, ca) ==
    /\ sm.pc = "idle"
    /\ sm' = IF n = 0
             THEN [sm EXCEPT !.pc = "done", !.verdict = Result(INVALID, "Domain has no mail servers", "d")]
             ELSE [sm EXCEPT !.pc = "connect", !.mx_servers = n, !.is_catch_all = ca]

\* verify_smtp 722-773: one attempt at the host sm.mx.
SmConnect(o) ==
    /\ sm.pc = "connect"
    /\ sm.retry_count < max_retries
    /\ sm' = IF o.kind = "rcpt"
             THEN LET rr == RcptReply(sm.result, o.code, sm.mx)
                      s  == [sm EXCEPT !.result = rr.result, !.seen550 = @ \/ o.code = 550] IN
                  IF rr.then = "return" THEN [s EXCEPT !.pc = "classify"] ELSE NextHost(s)
             ELSE IF o.kind = "network"
             THEN IF sm.retry_count + 1 < max_retries
                  THEN [sm EXCEPT !.pc = "sleep", !.retry_count = @ + 1, !.wait_time = 2 ^ (sm.retry_count + 1)]
                  ELSE NextHost([sm EXCEPT !.retry_count = @ + 1, !.exhausted = @ \cup {sm.mx}])
             ELSE NextHost(sm)

\* 765: time.sleep(wait_time).
SmSleep ==
    /\ sm.pc = "sleep"
    /\ sm' = [sm EXCEPT !.pc = "connect", !.sleeps[sm.mx] = Append(@, sm.wait_time)]

\* 775-777: no host gave an answer.
SmEnd ==
    /\ sm.pc = "end"
    /\ sm' = [sm EXCEPT !.pc = "classify",
                        !.result.reason = IF @ = NoReason
                                          THEN "All MX servers rejected connection or verification"
                                          ELSE @]

\* verify_email_smtp 849-887: the result of the probe.
SmClassify ==
    /\ sm.pc = "classify"
    /\ sm' = [sm EXCEPT !.pc = "done", !.verdict = SmtpVerdict(SmtpReply(sm.result), sm.is_catch_all, "d")]

----
\* Part G.  The RateLimiter's three methods called one after another, in any
\* order and for any domain, while time passes.

VARIABLES lim

limVars == <<lim>>

\* How many calls of the limiter's methods are followed.
MaxLimiterCalls == 4

InitLim == lim = [calls |-> 0, op |-> "none", domain |-> "d1", answer |-> FALSE]

\* is_rate_limited(d): its answer, and what it does to the two dicts.
LimIsLimited(d) ==
    /\ lim.calls < MaxLimiterCalls
    /\ lim' = [calls |-> lim.calls + 1, op |-> "is_rate_limited", domain |-> d,
               answer |-> is_rate_limited(d)]
    /\ backoff_times' = BackoffAfterCheck(d)
    /\ request_history' = HistoryAfterCheck(d)
    /\ UNCHANGED <<now, probe_log, rl>>

\* add_request(d).
LimAddRequest(d) ==
    /\ lim.calls < MaxLimiterCalls
    /\ lim' = [lim EXCEPT !.calls = @ + 1, !.op = "add_request", !.domain = d]
    /\ request_history' = add_request(d)
    /\ UNCHANGED <<now, backoff_times, probe_log, rl>>

\* set_backoff(d, 60), the one call the code makes.
LimSetBackoff(d) ==
    /\ lim.calls < MaxLimiterCalls
    /\ lim' = [lim EXCEPT !.calls = @ + 1, !.op = "set_backoff", !.domain = d]
    /\ backoff_times' = set_backoff(d, ThrottleBackoff)
    /\ UNCHANGED <<now, request_history, probe_log, rl>>

----
\* Part H.  VerifierService._add_to_cache (191-206) on a cache of any size up
\* to max_cache_size, called as verify_email calls it: for an address that
\* is not in the cache.  Addresses are numbered in the order of insertion.

VARIABLES ec

evictVars == <<ec>>

\* How many additions are followed.
MaxAdds == 3

\* The cache holding the addresses 1..n, the oldest first.
Filled(n) == [i \in 1..n |-> [email |-> i, result |-> Result(VALID, "Email address exists", "none")]]

\* The sizes the cache has when the additions start.
EvictSizes == {0} \cup ((max_cache_size - MaxAdds)..max_cache_size)

EvIdle == [cache |-> << >>, before |-> << >>, next |-> 1, adds |-> 0]

InitEvictIdle == ec = EvIdle

InitEvict == \E n \in EvictSizes : ec = [cache |-> Filled(n), before |-> << >>, next |-> n + 1, adds |-> 0]

\* verify_email 274-285: the result of a verification goes into the cache.
EvAdd(r) ==
    /\ ec.adds < MaxAdds
    /\ ec' = [cache |-> add_to_cache(ec.cache, ec.next, r), before |-> ec.cache,
              next |-> ec.next + 1, adds |-> ec.adds + 1]

----
\* Part I.  The bounce flow of EmailBounceVerifier (verifier2.py): a batch is
\* started, bounce messages arrive in the inbox of the sending account, and
\* process_responses classifies the batch from the unread bounces.

VARIABLES bv

bounceVars == <<bv>>

\* Bounds: bounce messages delivered, and process_responses calls followed.
MaxBounces == 2
MaxProcess == 2

PENDING == "pending"

\* The lists start_verification is called with, and an address that is in
\* none of them.
BounceLists == {<<"ms">>, <<"ms", "gmail">>}
BounceEmails == {"ms", "gmail"}
OutsideAddress == "corp"

\* extract_invalid_email_from_bounce (298-350) returns None when no pattern
\* matches.
NoAddress == "none"

\* What the patterns pull from a bounce that quotes the batch id: an address
\* the batch was sent to, some other address of the report, or nothing.
Extracted(sent) == sent \cup {OutsideAddress, NoAddress}

\* The data files ./data/<Category>.csv when the batch starts: each address
\* is in no file or in one.
DataStart == {"none", VALID, INVALID, RISKY}
StartRows(f) == [c \in Categories |-> [e \in AllEmails |-> IF e \in DOMAIN f /\ f[e] = c THEN 1 ELSE 0]]

BvIdle == [pc |-> "idle", batch |-> << >>, data |-> ZeroRows, invalid_csv |-> << >>, valid_csv |-> << >>,
           inbox |-> << >>, found |-> [e \in BounceEmails |-> "none"], processed |-> 0]

InitBounceIdle == bv = BvIdle

InitBounce == \E f \in [BounceEmails -> DataStart] : bv = [BvIdle EXCEPT !.data = StartRows(f)]

\* Settings.add_email_to_data (settings.py 509-548): a row is appended to the
\* file of the category unless that file already has the address.
add_email_to_data(rows, e, cat) ==
    IF ExistsInCategory(rows, cat, e) THEN rows ELSE AppendRow(rows, cat, e)

RECURSIVE AddAllToData(_, _, _)
\* The loops of save_results (364-385) over one list.
AddAllToData(rows, emails, cat) ==
    IF emails = << >> THEN rows
    ELSE AddAllToData(add_email_to_data(rows, Head(emails), cat), Tail(emails), cat)

\* The addresses of the rows of the batch file, in order.
BatchEmails(b) == [i \in 1..Len(b) |-> b[i].email]

InSeq(x, s) == \E i \in 1..Len(s) : s[i] = x

\* start_verification (410-465): a PENDING row for every address, then for
\* each address either the category a data file has it under is written to
\* its row and nothing is sent, or the verification mail goes out.
BvStartVerification(emails) ==
    /\ bv.pc = "idle"
    /\ LET category(e) == check_email_in_data(bv.data, e) IN
       bv' = [bv EXCEPT !.pc = "started",
                        !.batch = [i \in 1..Len(emails) |->
                                     [email |-> emails[i],
                                      status |-> IF category(emails[i]) # "none" THEN category(emails[i]) ELSE PENDING]],
                        !.found = [e \in BounceEmails |-> IF InSeq(e, emails) THEN category(e) ELSE "none"]]

\* The addresses of the batch a verification mail was sent to.
SentTo == {bv.batch[i].email : i \in {j \in 1..Len(bv.batch) : bv.batch[j].status = PENDING}}

\* A bounce that quotes the batch id arrives, unread, in the inbox.
BvBounce(a) ==
    /\ bv.pc = "started"
    /\ Len(bv.inbox) < MaxBounces
    /\ \E i \in 1..Len(bv.batch) : bv.found[bv.batch[i].email] = "none"
    /\ a \in Extracted({e \in BounceEmails : InSeq(e, BatchEmails(bv.batch)) /\ bv.found[e] = "none"})
    /\ bv' = [bv EXCEPT !.inbox = Append(@, [address |-> a, seen |-> FALSE])]

\* check_inbox_for_bounces (163-276): the addresses extracted from the unread
\* bounces, then the addresses of the batch file that are not among them.
invalid_emails(inbox) ==
    LET unread == SelectSeq(inbox, LAMBDA m : ~m.seen /\ m.address # NoAddress) IN
    [i \in 1..Len(unread) |-> unread[i].address]

valid_emails(b, invalid) == SelectSeq(BatchEmails(b), LAMBDA e : ~InSeq(e, invalid))

\* save_results 387-408: the status column of the batch file.
BatchAfterSave(b, invalid, valid) ==
    [i \in 1..Len(b) |->
        [b[i] EXCEPT !.status = IF InSeq(b[i].email, invalid) THEN INVALID
                                ELSE IF InSeq(b[i].email, valid) THEN VALID
                                ELSE @]]

\* process_responses (589-605): check_inbox_for_bounces, which marks what it
\* read as seen, then save_results (352-408).
BvProcessResponses ==
    /\ bv.pc = "started"
    /\ bv.processed < MaxProcess
    /\ LET invalid == invalid_emails(bv.inbox)
           valid == valid_emails(bv.batch, invalid) IN
       bv' = [bv EXCEPT !.inbox = [i \in 1..Len(bv.inbox) |-> [bv.inbox[i] EXCEPT !.seen = TRUE]],
                        !.invalid_csv = @ \o invalid,
                        !.valid_csv = @ \o valid,
                        !.data = AddAllToData(AddAllToData(@, invalid, INVALID), valid, VALID),
                        !.batch = BatchAfterSave(@, invalid, valid),
                        !.processed = @ + 1]

----
\* Part J.  The browser sessions of _verify_login (2367-2627): every login
\* probe opens its driver through _browser_context (1093-1113) and leaves
\* the with block by a return or by an exception.

VARIABLES br

browserVars == <<br>>

\* Bound: _verify_login calls followed for each worker.
MaxLogins == 2

\* How the body of the with block is left: a verdict after the page reacted,
\* the early returns (no email field, no next button, no click went through),
\* and the two except clauses (2600-2627).
BodyExits == {"verdict", "no_email_field", "no_next_button", "click_failed",
              "WebDriverException", "Exception"}

\* _get_browser_driver raised: no driver was bound.
StartFailure == "driver_start_failure"

BrIdle == [pc |-> "idle", driver |-> FALSE, sessions |-> 0, exit |-> "none", logins |-> 0]

InitBrowser == br = [w \in Workers |-> BrIdle]

\* A cleanup that quits the driver only after a verdict.
SessionsAfterVerdict(sessions, driver, exit) ==
    IF driver /\ exit = "verdict" THEN sessions - 1 ELSE sessions

\* The finally clause of _browser_context (1108-1113): `if driver:
\* driver.quit()`, whatever way the block was left; an error of quit is
\* logged.
SessionsAfterFinally(sessions, driver, exit) ==
    IF driver THEN sessions - 1 ELSE sessions

\* _verify_login is called: rate limiting, then the with statement (2393).
BrVerifyLogin(w) ==
    /\ br[w].pc = "idle"
    /\ br[w].logins < MaxLogins
    /\ br' = [br EXCEPT ![w] = [BrIdle EXCEPT !.pc = "get_driver", !.sessions = br[w].sessions,
                                              !.logins = br[w].logins + 1]]

\* 1105-1107: `driver = self._get_browser_driver(browser_type)` starts a
\* session or raises; the exception leaves driver None and reaches finally.
BrGetDriver(w, started) ==
    /\ br[w].pc = "get_driver"
    /\ br' = [br EXCEPT ![w].pc = IF started THEN "body" ELSE "finally",
                        ![w].driver = started,
                        ![w].sessions = IF started THEN @ + 1 ELSE @,
                        ![w].exit = IF started THEN "none" ELSE StartFailure]

\* 2394-2627: the body of the with block is left.
BrLeaveBody(w, exit) ==
    /\ br[w].pc = "body"
    /\ br' = [br EXCEPT ![w].pc = "finally", ![w].exit = exit]

\* 1108-1113, then _verify_login returns its result or, after a start
\* failure, the exception goes on to the caller.
BrFinally(w) ==
    /\ br[w].pc = "finally"
    /\ br' = [br EXCEPT ![w].pc = "idle",
                        ![w].sessions = SessionsAfterFinally(@, br[w].driver, br[w].exit),
                        ![w].driver = FALSE]


----
\* Part K.  The terminal threads of batch_verify (2785-2804) around the
\* queues of the verifier instance: self.email_queue and self.result_queue
\* are made once in __init__ (373-379), so every batch_verify call on the
\* instance, and the threads each call starts, work on the same two queues.
\* verify_email is followed by its outcome only, so that the loop of
\* _terminal_worker can be followed for as long as it runs.

VARIABLES tw

workerVars == <<tw>>

\* The threads that call batch_verify on the instance, and the terminal
\* threads each call starts.
Callers == {"c1", "c2"}
TwThreads == Callers \X (1..terminal_count)

\* The lists batch_verify is called with in threaded mode (more than one
\* address).
TwLists == {<<"bad", "ms">>, <<"ms", "gmail">>, <<"gmail", "yahoo">>}

\* The addresses whose verification may raise under settings c: the
\* pre-checks do not decide and the strategy can end in an exception.
CanRaise(c) ==
    {e \in AllEmails : PrecheckResult(e) = NoResult
                       /\ \E o \in StrategyOutcomes(c, e) : o.kind = "raise"}

TwCallerIdle == [pc |-> "idle", emails |-> << >>, results |-> {}]
TwWorkerIdle == [pc |-> "none", email |-> "none"]

TwIdle == [raising |-> {}, email_queue |-> << >>, unfinished |-> 0, result_queue |-> << >>,
           caller |-> [c \in Callers |-> TwCallerIdle],
           worker |-> [t \in TwThreads |-> TwWorkerIdle]]

InitWorkersIdle == tw = TwIdle

\* The addresses whose verification raises every time on this host: none,
\* or every Microsoft address.
InitWorkers == \E R \in {{}, {"ms"} \cap CanRaise(cfg)} : tw = [TwIdle EXCEPT !.raising = R]

\* batch_verify 2785-2797 in threaded mode: the addresses are put in the
\* queue and min(terminal_count, len(emails)) threads are started.
TwBatchVerify(c, emails) ==
    /\ tw.caller[c].pc = "idle"
    /\ ModeOf(emails, TRUE, FALSE) = "threaded"
    /\ tw' = [tw EXCEPT !.email_queue = @ \o emails,
                        !.unfinished = @ + Len(emails),
                        !.caller[c] = [pc |-> "join", emails |-> emails, results |-> {}],
                        !.worker = [t \in TwThreads |->
                                      IF t[1] = c /\ t[2] <= Min(terminal_count, Len(emails))
                                      THEN [pc |-> "get", email |-> "none"]
                                      ELSE @[t]]]

\* _terminal_worker 2702-2705, 2720-2723: `email_queue.get(block=False)`
\* gives an address, or queue.Empty ends the thread.
TwGet(t) ==
    /\ tw.worker[t].pc = "get"
    /\ IF tw.email_queue = << >>
       THEN tw' = [tw EXCEPT !.worker[t].pc = "exit"]
       ELSE tw' = [tw EXCEPT !.worker[t] = [pc |-> "verify", email |-> Head(tw.email_queue)],
                             !.email_queue = Tail(@)]

\* _terminal_worker 2707-2718: verify_email returned; the result is put in
\* the result queue and the task is marked done.
TwPut(t) ==
    /\ tw.worker[t].pc = "verify"
    /\ tw.worker[t].email \notin tw.raising
    /\ tw' = [tw EXCEPT !.result_queue = Append(@, tw.worker[t].email),
                        !.unfinished = @ - 1,
                        !.worker[t] = [pc |-> "get", email |-> "none"]]

\* _terminal_worker 2725-2732: verify_email raised; the address is put back
\* (put: one more unfinished task) and task_done is called (one fewer).
TwRequeue(t) ==
    /\ tw.worker[t].pc = "verify"
    /\ tw.worker[t].email \in tw.raising
    /\ tw' = [tw EXCEPT !.email_queue = Append(@, tw.worker[t].email),
                        !.unfinished = @ + 1 - 1,
                        !.worker[t] = [pc |-> "get", email |-> "none"]]

\* batch_verify 2799-2804: email_queue.join() returns when no task is
\* unfinished, and the result queue is emptied into the results dict.
TwJoin(c) ==
    /\ tw.caller[c].pc = "join"
    /\ tw.unfinished = 0
    /\ tw' = [tw EXCEPT !.caller[c].pc = "returned",
                        !.caller[c].results = {tw.result_queue[i] : i \in 1..Len(tw.result_queue)},
                        !.result_queue = << >>]


----
\* Part L.  The keys of the scratch file temp_history.json over verify_email
\* calls for one Microsoft address, one call at a time: add_to_history
\* (551-576) writes every event under the address it is given, also the
\* events of the API calls that check_microsoft_api_catch_all makes for
\* admin@<domain> and for a random local part.

VARIABLES sc

scratchVars == <<sc>>

\* Bound: verify_email calls followed.
MaxScratchCalls == 2

\* The address verified, admin@<domain>, and the random address of the
\* n-th call (16 random characters: a new one every call).
ScAddress == [local |-> "u", n |-> 0]
ScAdmin == [local |-> "admin", n |-> 0]
ScRandom(n) == [local |-> "random", n |-> n]
Auxiliary == {ScAdmin} \cup {ScRandom(n) : n \in 1..MaxScratchCalls}
ScratchKeys == {ScAddress} \cup Auxiliary

\* How the probes after the API end: with a result that is saved, or with
\* an exception or None.
ProbeEnds == {"saved", "not saved"}

ScIdle == [pc |-> "idle", calls |-> 0, temp |-> [k \in ScratchKeys |-> 0],
           valid_result |-> NoResult, result |-> NoResult]

InitScratch == sc = ScIdle

\* _save_history_event (578-606): the event is appended under the address.
SaveHistoryEvents(temp, k, n) == [temp EXCEPT ![k] = @ + n]

\* _move_from_temp_history (640-662): `del temp_history[email]`.
MoveFromTemp(temp, k) == [temp EXCEPT ![k] = 0]

\* The keys the scratch file has.
TempKeys(temp) == {k \in ScratchKeys : temp[k] > 0}

\* verify_email 1129-1210 and _verify_microsoft_email 1248-1252: the events
\* "Verification started", "Provider identified" and "Following Microsoft
\* verification order", then the catch-all check when the microsoft_api
\* setting is on.
ScVerifyEmail(microsoft_api) ==
    /\ sc.pc = "idle"
    /\ sc.calls < MaxScratchCalls
    /\ sc' = [sc EXCEPT !.pc = IF microsoft_api THEN "admin" ELSE "probes",
                        !.calls = @ + 1,
                        !.temp = SaveHistoryEvents(@, ScAddress, 3),
                        !.valid_result = NoResult, !.result = NoResult]

\* check_microsoft_api_catch_all 909: verify_microsoft_api(admin@<domain>)
\* logs its start and its outcome under admin@<domain> (932, 1019-1052).
ScApiAdmin(body) ==
    /\ sc.pc = "admin"
    /\ sc' = [sc EXCEPT !.pc = "random",
                        !.temp = SaveHistoryEvents(@, ScAdmin, 2),
                        !.valid_result = ApiVerdict(body)]

\* check_microsoft_api_catch_all 910-917: the same for the random address,
\* and the answer; 1255-1256: the API is asked about the address itself
\* unless the domain is a catch-all.
ScApiRandom(body) ==
    /\ sc.pc = "random"
    /\ sc' = [sc EXCEPT !.pc = IF check_microsoft_api_catch_all(sc.valid_result, ApiVerdict(body))
                               THEN "probes" ELSE "api",
                        !.temp = SaveHistoryEvents(IF check_microsoft_api_catch_all(sc.valid_result, ApiVerdict(body))
                                                   THEN SaveHistoryEvents(@, ScAddress, 1) ELSE @,
                                                   ScRandom(sc.calls), 2)]

\* 1256-1262: verify_microsoft_api(email); a definitive result is saved.
ScApi(body) ==
    /\ sc.pc = "api"
    /\ sc' = [sc EXCEPT !.pc = IF Definitive(ApiVerdict(body)) THEN "save" ELSE "probes",
                        !.temp = SaveHistoryEvents(@, ScAddress, 2),
                        !.result = ApiVerdict(body)]

\* 1264-1325: the browsers and SMTP, each logging under the address; they
\* end with a result that is saved or with an exception or None, and
\* verify_email is left.
ScProbes(end) ==
    /\ sc.pc = "probes"
    /\ sc' = [sc EXCEPT !.pc = IF end = "saved" THEN "save" ELSE "idle",
                        !.temp = SaveHistoryEvents(@, ScAddress, 1)]

\* save_result 684-685 -> save_history 608-638 -> _move_from_temp_history:
\* the key of the verified address is removed, and verify_email returns.
ScSaveResult ==
    /\ sc.pc = "save"
    /\ sc' = [sc EXCEPT !.pc = "idle", !.temp = MoveFromTemp(@, ScAddress)]


vars == <<now, request_history, backoff_times, probe_log, rl,
          cfg, th, tasks, bg, result_cache, lv_cache, data_rows, csv_rows, returned, pipeline_runs,
          batch, email_queue, unfinished, result_queue, chunks,
          lists, world, pv, cache_len, lv_cache_len, adder,
          verification_history, temp_history, history_files, hw, sm, lim, ec, bv, br, tw, sc>>

\* Which outcomes of the probes the network produces: any of them, or, when
\* replies is "few", these: the Microsoft API knows the address, a login page
\* shows a CAPTCHA, a browser driver does not start, and what an empty
\* browser list leads to.
Replied(o, replies) ==
    \/ replies = "any"
    \/ o.kind = "none"
    \/ o.result.reason \in {"Email address exists (Microsoft API)", "CAPTCHA challenge encountered",
                            DriverError, Unbound}

\* The steps of verify_email.
Pipeline(t, replies) ==
    \/ LvCheckData(t)
    \/ LvPrechecks(t)
    \/ /\ th[t].pc = "lv_strategy"
       /\ \E o \in {x \in StrategyOutcomes(cfg, th[t].email) : Replied(x, replies)} : LvStrategy(t, o)
    \/ LvStore(t)
    \/ SaveCsv(t)
    \/ AddDataCheck(t)
    \/ AddDataAppend(t)

Service(t) ==
    \/ SvcCheckCache(t)
    \/ SvcAfterLogin(t)
    \/ SvcAddCache(t)

Background(t) ==
    \/ BgBegin(t)
    \/ BgLoop(t)
    \/ BgStore(t)
    \/ BgPublishCompleted(t)
    \/ BgPublishResults(t)
    \/ BgFinish(t)
    \/ BgEnd(t)

Init == InitRate /\ InitSvc /\ InitBatch /\ InitProbeIdle /\ InitCacheIdle /\ InitHistory /\ InitSmtp /\ InitLim /\ InitEvictIdle /\ InitBounceIdle /\ InitBrowser /\ InitWorkersIdle /\ InitScratch

\* The service with a request thread and a task thread running side by side.
NextSvc ==
    \/ \E t \in Requests, e \in Emails, m \in Methods : ReqCall(t, e, m)
    \/ \E t \in TaskIds, l \in {x \in BatchLists : Len(x) <= MaxRaceBatch}, m \in Methods : StartBatch(t, l, m)
    \/ \E t \in Threads : Pipeline(t, "few")
    \/ \E t \in Threads : Service(t)
    \/ \E t \in TaskIds : Background(t)

Next == NextSvc /\ UNCHANGED <<rateVars, batchVars, probeVars, cacheVars, histVars, smtpVars, limVars, evictVars, bounceVars, browserVars, workerVars, scratchVars>>

Spec == Init /\ [][Next]_vars

\* The steps of a task's background thread.
TaskStep(t) == (Pipeline(t, "any") \/ Service(t) \/ Background(t)) /\ UNCHANGED <<rateVars, batchVars, probeVars, cacheVars, histVars, smtpVars, limVars, evictVars, bounceVars, browserVars, workerVars, scratchVars>>

\* Batch tasks on their own, the network free to reply anything.
NextTask ==
    \/ \E t \in TaskIds, l \in BatchLists, m \in Methods : StartBatch(t, l, m) /\ UNCHANGED <<rateVars, batchVars, probeVars, cacheVars, histVars, smtpVars, limVars, evictVars, bounceVars, browserVars, workerVars, scratchVars>>
    \/ \E t \in TaskIds : TaskStep(t)

SpecTask == Init /\ [][NextTask]_vars

\* Task threads are scheduled by the operating system and every step of
\* theirs returns: each keeps running until its function ends.
FairSpec == SpecTask /\ \A t \in TaskIds : WF_vars(TaskStep(t))

\* One verify_email call at a time, for every address, method and reply.
NextVerify ==
    \/ \E t \in Requests, e \in AllEmails, m \in Methods : ReqCall(t, e, m) /\ UNCHANGED <<rateVars, batchVars, probeVars, cacheVars, histVars, smtpVars, limVars, evictVars, bounceVars, browserVars, workerVars, scratchVars>>
    \/ \E t \in Requests : (Pipeline(t, "any") \/ Service(t)) /\ UNCHANGED <<rateVars, batchVars, probeVars, cacheVars, histVars, smtpVars, limVars, evictVars, bounceVars, browserVars, workerVars, scratchVars>>

SpecVerify == Init /\ [][NextVerify]_vars

\* The steps of the terminals and of the thread that called batch_verify.
Terminal(w) ==
    \/ WorkerGet(w)
    \/ WorkerPut(w)
    \/ WorkerRequeue(w)
    \/ ProcNext(w)
    \/ ProcPut(w)

\* One batch_verify call, in any of its three modes.
NextBatch ==
    \/ \E l \in BatchLists, multi \in BOOLEAN, real \in BOOLEAN : BatchVerify(l, multi, real) /\ UNCHANGED <<rateVars, probeVars, cacheVars, histVars, smtpVars, limVars, evictVars, bounceVars, browserVars, workerVars, scratchVars>>
    \/ \E w \in Workers : Terminal(w) /\ UNCHANGED <<rateVars, probeVars, cacheVars, histVars, smtpVars, limVars, evictVars, bounceVars, browserVars, workerVars, scratchVars>>
    \/ (BatchJoin \/ ProcJoin \/ SingleLoop \/ SingleStore) /\ UNCHANGED <<rateVars, probeVars, cacheVars, histVars, smtpVars, limVars, evictVars, bounceVars, browserVars, workerVars, scratchVars>>
    \/ \E t \in Workers \cup {Main} : Pipeline(t, "few") /\ UNCHANGED <<rateVars, batchVars, probeVars, cacheVars, histVars, smtpVars, limVars, evictVars, bounceVars, browserVars, workerVars, scratchVars>>

SpecBatch == Init /\ [][NextBatch]_vars

\* The rate limiter on its own: the probing threads of Part A, nothing else moving.
InitLimiter == Init /\ cfg.smtp_accounts /\ cfg.browsers # << >>

SpecRate == InitLimiter /\ [][NextRate /\ UNCHANGED <<svcVars, batchVars, probeVars, cacheVars, histVars, smtpVars, limVars, evictVars, bounceVars, browserVars, workerVars, scratchVars>>]_vars

\* One call of verify_email after another, the domain lists edited in between.
InitProbe ==
    /\ InitRate /\ InitBatch /\ InitStores
    /\ cfg \in ProbeConfigs
    /\ lists = InitLists
    /\ world \in Worlds
    /\ pv = PvIdle
    /\ InitCacheIdle /\ InitHistory /\ InitSmtp /\ InitLim /\ InitEvictIdle /\ InitBounceIdle /\ InitBrowser /\ InitWorkersIdle /\ InitScratch

\* What a call of verify_email leaves alone.
ProbeRest == UNCHANGED <<cacheVars, histVars, smtpVars, limVars, evictVars, bounceVars, browserVars, workerVars, scratchVars>>

NextProbe ==
    \/ \E e \in AllEmails, entry \in {"service", "verifier"} : PvCall(e, entry) /\ ProbeRest
    \/ PvServiceCache /\ ProbeRest
    \/ PvCheckData /\ ProbeRest
    \/ PvVerifierCache /\ ProbeRest
    \/ PvFormat /\ ProbeRest
    \/ PvBlacklist /\ ProbeRest
    \/ PvWhitelist /\ ProbeRest
    \/ PvMx /\ ProbeRest
    \/ \E v, r \in ApiResults \cup {NoResult} : PvApiCatchAll(v, r) /\ ProbeRest
    \/ PvApiCatchAllReturn /\ ProbeRest
    \/ \E r \in ApiResults \cup {NoResult} : PvApi(r) /\ ProbeRest
    \/ \E r \in UNION {BrowserReplies(AddressBook[e].provider) : e \in AllEmails} : PvBrowser(r) /\ ProbeRest
    \/ \E r \in UNION {BrowserReplies(AddressBook[e].provider) : e \in AllEmails} : PvDirect(r) /\ ProbeRest
    \/ \E r \in UNION {BrowserReplies(AddressBook[e].provider) : e \in AllEmails} : PvOnce(r) /\ ProbeRest
    \/ PvLoopEnd /\ ProbeRest
    \/ \E reply \in {"deliverable", "unavailable", "rejected"} : PvSmtp(reply) /\ ProbeRest
    \/ \E reply \in {"deliverable", "unavailable", "rejected"} : PvCustomDomain(reply) /\ ProbeRest
    \/ PvStore /\ ProbeRest
    \/ PvReturn /\ ProbeRest
    \/ PvDone /\ ProbeRest
    \/ \E d \in ListedLater : AddBlacklistedDomain(d) /\ ProbeRest
    \/ \E d \in ListedLater : AddWhitelistedDomain(d) /\ ProbeRest
    \/ ReloadSettings /\ ProbeRest

SpecProbe == InitProbe /\ [][NextProbe]_vars

\* The two caches while a request thread and a task thread verify new addresses.
InitSizes == InitRate /\ InitSvc /\ InitBatch /\ InitProbeIdle /\ InitCache /\ InitHistory /\ InitSmtp /\ InitLim /\ InitEvictIdle /\ InitBounceIdle /\ InitBrowser /\ InitWorkersIdle /\ InitScratch

CacheRest == UNCHANGED <<rateVars, svcVars, batchVars, probeVars, histVars, smtpVars, limVars, evictVars, bounceVars, browserVars, workerVars, scratchVars>>

NextCache ==
    \/ \E t \in Threads : CvVerify(t) /\ CacheRest
    \/ \E t \in Threads : CvEvict(t) /\ CacheRest
    \/ \E t \in Threads : CvInsert(t) /\ CacheRest

SpecCache == InitSizes /\ [][NextCache]_vars

\* The terminals of a batch verifying one address, each keeping its history.
HistRest == UNCHANGED <<rateVars, batchVars, probeVars, cacheVars, smtpVars, limVars, evictVars, bounceVars, browserVars, workerVars, scratchVars>>

NextHistory ==
    \/ \E w \in Workers : HCall(w) /\ HistRest
    \/ \E w \in Workers : HAppend(w) /\ HistRest
    \/ \E w \in Workers : HWriteTemp(w) /\ HistRest
    \/ \E w \in Workers : HCheck(w) /\ HistRest
    \/ \E w \in Workers, c \in HistCategories : HVerdict(w, c) /\ HistRest
    \/ \E w \in Workers : HStore(w) /\ HistRest
    \/ \E w \in Workers : HSaveHistory(w) /\ HistRest
    \/ \E w \in Workers : HMoveRead(w) /\ HistRest
    \/ \E w \in Workers : HMoveWrite(w) /\ HistRest
    \/ \E w \in Workers : HReturn(w) /\ HistRest

SpecHistory == Init /\ [][NextHistory]_vars

\* One SMTP probe, whatever the hosts answer.
SmtpRest == UNCHANGED <<rateVars, svcVars, batchVars, probeVars, cacheVars, histVars, limVars, evictVars, bounceVars, browserVars, workerVars, scratchVars>>

NextSmtp ==
    \/ \E n \in 0..MaxMx, ca \in BOOLEAN : SmCall(n, ca) /\ SmtpRest
    \/ \E o \in Attempts : SmConnect(o) /\ SmtpRest
    \/ SmSleep /\ SmtpRest
    \/ SmEnd /\ SmtpRest
    \/ SmClassify /\ SmtpRest

SpecSmtp == Init /\ [][NextSmtp]_vars

\* The limiter called directly.
LimRest == UNCHANGED <<svcVars, batchVars, probeVars, cacheVars, histVars, smtpVars, evictVars, bounceVars, browserVars, workerVars, scratchVars>>

NextLimiter ==
    \/ \E d \in Domains : LimIsLimited(d) /\ LimRest
    \/ \E d \in Domains : LimAddRequest(d) /\ LimRest
    \/ \E d \in Domains : LimSetBackoff(d) /\ LimRest
    \/ Tick /\ UNCHANGED lim /\ LimRest

SpecLimiter == Init /\ [][NextLimiter]_vars

\* Additions to a cache that is empty, nearly full or full.
InitAdds ==
    /\ InitRate /\ InitSvc /\ InitBatch /\ InitProbeIdle /\ InitCacheIdle /\ InitHistory
    /\ InitSmtp /\ InitLim /\ InitEvict /\ InitBounceIdle /\ InitBrowser /\ InitWorkersIdle /\ InitScratch

EvictRest == UNCHANGED <<rateVars, svcVars, batchVars, probeVars, cacheVars, histVars, smtpVars, limVars, bounceVars, browserVars, workerVars, scratchVars>>

NextEvict ==
    \E r \in ApiResults : EvAdd(r) /\ EvictRest

SpecEvict == InitAdds /\ [][NextEvict]_vars

\* The bounce flow of one batch, with the data files as they may be found.
InitBounces ==
    /\ InitRate /\ InitSvc /\ InitBatch /\ InitProbeIdle /\ InitCacheIdle /\ InitHistory
    /\ InitSmtp /\ InitLim /\ InitEvictIdle /\ InitBounce /\ InitBrowser /\ InitWorkersIdle /\ InitScratch

BounceRest == UNCHANGED <<rateVars, svcVars, batchVars, probeVars, cacheVars, histVars, smtpVars, limVars, evictVars, browserVars, workerVars, scratchVars>>

NextBounce ==
    \/ \E l \in BounceLists : BvStartVerification(l) /\ BounceRest
    \/ \E a \in AllEmails \cup {NoAddress} : BvBounce(a) /\ BounceRest
    \/ BvProcessResponses /\ BounceRest

SpecBounce == InitBounces /\ [][NextBounce]_vars

\* The login probes of the terminal workers.
BrowserRest == UNCHANGED <<rateVars, svcVars, batchVars, probeVars, cacheVars, histVars, smtpVars, limVars, evictVars, bounceVars, workerVars, scratchVars>>

NextBrowser ==
    \/ \E w \in Workers : BrVerifyLogin(w) /\ BrowserRest
    \/ \E w \in Workers, started \in BOOLEAN : BrGetDriver(w, started) /\ BrowserRest
    \/ \E w \in Workers, exit \in BodyExits : BrLeaveBody(w, exit) /\ BrowserRest
    \/ \E w \in Workers : BrFinally(w) /\ BrowserRest

SpecBrowser == Init /\ [][NextBrowser]_vars

\* batch_verify calls in threaded mode on one verifier instance.
InitThreaded ==
    /\ InitRate /\ InitSvc /\ InitBatch /\ InitProbeIdle /\ InitCacheIdle /\ InitHistory
    /\ InitSmtp /\ InitLim /\ InitEvictIdle /\ InitBounceIdle /\ InitBrowser /\ InitWorkers /\ InitScratch

WorkerRest == UNCHANGED <<rateVars, svcVars, batchVars, probeVars, cacheVars, histVars, smtpVars, limVars, evictVars, bounceVars, browserVars, scratchVars>>

TwWorker(t) == (TwGet(t) \/ TwPut(t) \/ TwRequeue(t)) /\ WorkerRest

TwCaller(c) == TwJoin(c) /\ WorkerRest

NextWorkers ==
    \/ \E c \in Callers, l \in TwLists : TwBatchVerify(c, l) /\ WorkerRest
    \/ \E t \in TwThreads : TwGet(t) /\ WorkerRest
    \/ \E t \in TwThreads : TwPut(t) /\ WorkerRest
    \/ \E t \in TwThreads : TwRequeue(t) /\ WorkerRest
    \/ \E c \in Callers : TwJoin(c) /\ WorkerRest

SpecWorkers == InitThreaded /\ [][NextWorkers]_vars

\* The threads are scheduled by the operating system and verify_email
\* returns or raises: a terminal thread keeps running its loop, and a caller
\* whose join can return does return.
FairWorkers ==
    /\ SpecWorkers
    /\ \A t \in TwThreads : WF_vars(TwWorker(t))
    /\ \A c \in Callers : WF_vars(TwCaller(c))

\* The scratch file over verify_email calls for a Microsoft address.
ScratchRest == UNCHANGED <<rateVars, svcVars, batchVars, probeVars, cacheVars, histVars, smtpVars, limVars, evictVars, bounceVars, browserVars, workerVars>>

NextScratch ==
    \/ \E microsoft_api \in BOOLEAN : ScVerifyEmail(microsoft_api) /\ ScratchRest
    \/ \E body \in ApiBodies : ScApiAdmin(body) /\ ScratchRest
    \/ \E body \in ApiBodies : ScApiRandom(body) /\ ScratchRest
    \/ \E body \in ApiBodies : ScApi(body) /\ ScratchRest
    \/ \E end \in ProbeEnds : ScProbes(end) /\ ScratchRest
    \/ ScSaveResult /\ ScratchRest

SpecScratch == Init /\ [][NextScratch]_vars

----
\* Properties of the service.

SubmittedTo(t) == {tasks[t].emails[i] : i \in 1..Len(tasks[t].emails)}

\* C2: once a task's status is completed, its results hold one entry for each
\* submitted address and every entry's verdict is VALID, INVALID, RISKY or
\* CUSTOM, also for an address whose verification raised.
BatchCompleteness ==
    \A t \in TaskIds :
        tasks[t].status = "completed" =>
            /\ DOMAIN TaskResults(t) = SubmittedTo(t)
            /\ \A e \in DOMAIN TaskResults(t) : TaskResults(t)[e].category \in Categories

\* C3: whatever verify calls have run, one after another or interleaved, an
\* address has at most one row across the four per-category files.
IdempotentPersistence ==
    \A e \in AllEmails : RowsOf(data_rows, e) <= 1 /\ RowsOf(csv_rows, e) <= 1

\* C4: a verify call for an address that begins after a verdict was returned
\* for that address returns that same verdict, and runs no probe.
DeterminismGivenCache ==
    \A t \in Threads :
        (th[t].ret.status # "none" /\ th[t].ret.prior # {}) =>
            /\ th[t].ret.status = "ok"
            /\ th[t].ret.prior = {th[t].ret.category}
            /\ ~th[t].ret.probed

\* C6: at every moment a task's completed count is at most the number of its
\* addresses, and a task whose status is completed has all of them counted
\* and its end time set.
TaskInvariants ==
    \A t \in TaskIds :
        /\ tasks[t].completed <= Len(tasks[t].emails)
        /\ tasks[t].status = "completed" =>
               (tasks[t].completed = Len(tasks[t].emails) /\ tasks[t].end_time # "null")

\* C7: the completed count a task reports never decreases, and it reaches the
\* number of submitted addresses.
ProgressMonotone ==
    /\ [][\A t \in TaskIds : tasks'[t].completed >= tasks[t].completed]_vars
    /\ \A t \in TaskIds : (tasks[t].status = "pending") ~> (tasks[t].completed = tasks[t].total)

\* A running task that has counted MaxBatch addresses, one of them twice in
\* the list, and reports them all.
ProgressWitness ==
    \E t \in TaskIds :
        /\ tasks[t].status = "running"
        /\ tasks[t].total = MaxBatch
        /\ Cardinality(SubmittedTo(t)) < MaxBatch
        /\ tasks[t].completed = tasks[t].total

StatusOrder == {<<"none", "pending">>, <<"pending", "running">>, <<"running", "completed">>}

\* C8: every task that was started reaches status completed with its end time
\* set, whether or not verifications raise, and its status only moves from
\* pending to running to completed.
TaskLiveness ==
    /\ \A t \in TaskIds :
          (tasks[t].status = "pending") ~> (tasks[t].status = "completed" /\ tasks[t].end_time = "set")
    /\ [][\A t \in TaskIds : tasks'[t].status # tasks[t].status =>
                                 <<tasks[t].status, tasks'[t].status>> \in StatusOrder]_vars

\* A completed task with its end time set, one of whose verifications raised.
TaskLivenessWitness ==
    \E t \in TaskIds :
        /\ tasks[t].status = "completed"
        /\ tasks[t].end_time = "set"
        /\ \E e \in DOMAIN TaskResults(t) : TaskResults(t)[e].category = "error"

\* C10: every verify call returns a result whose verdict is VALID, INVALID,
\* RISKY or CUSTOM, for every method, address and settings.
VerifyAlwaysReturns ==
    \A t \in Requests :
        th[t].ret.status # "none" => (th[t].ret.status = "ok" /\ th[t].ret.category \in Categories)

\* C5: within one batch the probes are run at most once for every address,
\* whichever mode the batch runs in, duplicates and errors included.
AtMostOnceVerification ==
    \A e \in AllEmails : pipeline_runs[e] <= 1

\* C9: when the verification of an address raises inside a batch, what is
\* recorded for the address is RISKY with reason "Verification error: <msg>",
\* and the batch goes on: in the service's background task, in a terminal
\* thread and in a terminal process.
ErrorContainment ==
    [][/\ \A t \in TaskIds :
             (th[t].pc = "bg_store" /\ th[t].ret.status = "raised" /\ th'[t].pc # "bg_store") =>
                 /\ th[t].email \in DOMAIN bg'[t].results
                 /\ bg'[t].results[th[t].email].category = RISKY
                 /\ bg'[t].results[th[t].email].reason = VerificationError(th[t].res.reason)
                 /\ th'[t].pc # "dead"
       /\ \A w \in Workers \cup {Main} :
             (th[w].pc = "lv_raise" /\ th'[w].pc # "lv_raise") =>
                 /\ result_queue'[th[w].proc] =
                        Append(result_queue[th[w].proc], RiskyError(th[w].email, th[w].res.reason))
                 /\ batch'.status # "raised"]_vars


----
\* Properties of verify_email, check by check.

\* C11: at a domain that accepts the random local part, with catch-all
\* detection on, no call ends with a VALID verdict: whichever probe or
\* pre-check found the address, the verdict is downgraded to RISKY.
CatchAllPropagatesRisk ==
    (pv.pc = "done" /\ pv.email # "none" /\ world.catch_all_detection
        /\ DomainOf(pv.email) \in world.catch_all)
    => pv.res.category # VALID

\* The domains on the whitelist: the file's rows and the built-in skip list.
Whitelisted == lists.whitelist \cup DefaultSkipDomains

\* C12: a call for an address whose domain is on the blacklist when the call
\* is made ends INVALID, and one for an address whose domain is on the
\* whitelist (and not on the blacklist) ends VALID, whatever was cached or
\* saved before and whenever the domain was listed.
ListPrecedence ==
    (pv.pc = "done" /\ pv.email # "none" /\ AddressBook[pv.email].format)
    => /\ DomainOf(pv.email) \in lists.blacklist => pv.res.category = INVALID
       /\ DomainOf(pv.email) \in Whitelisted \ lists.blacklist => pv.res.category = VALID

----
\* Properties of the rate limiter's backoff.

BackoffActive(d) == backoff_times[d] # NoBackoff /\ now < backoff_times[d]

\* C13: while a domain's backoff is active no probe records and sends a
\* request to that domain: a caller that found the domain limited has slept
\* and looked again before it does.
BackoffRespected ==
    [][\A p \in Probers :
          (rl[p].pc = "record" /\ rl'[p].pc = "probing") => ~BackoffActive(rl[p].domain)]_vars

----
\* Properties of the caches, the history log and the task's progress.

\* C14: neither result cache ever holds more than max_cache_size entries,
\* after any sequence of verifications and whatever the cache file held
\* when the service started.
CacheBounded == cache_len <= max_cache_size /\ lv_cache_len <= max_cache_size

\* C15: a result the cache holds keeps every field it has: no later call,
\* cache hit included, changes it.
ResultImmutable ==
    [][\A e \in AllEmails :
          (CacheHas(result_cache, e) /\ CacheHas(result_cache', e))
              => CacheGet(result_cache', e) = CacheGet(result_cache, e)]_vars

\* C16: when verify_email returns a verdict for the address and no other
\* worker is verifying it, the events the call recorded are in the history
\* file of the verdict's category and the scratch file has no entry for it.
HistoryMigrated ==
    \A w \in Workers :
        (hw[w].pc = "return" /\ \A v \in Workers \ {w} : hw[v].pc = "idle")
        => /\ temp_history = Absent
           /\ hw[w].mine \subseteq Events(history_files[hw[w].category])

\* Every event the history log of the address holds on disk: in the scratch
\* file or in a category's history file.
Recorded ==
    Events(temp_history) \cup UNION {Events(history_files[c]) : c \in HistCategories}

\* C17: an event recorded for the address is never removed, also when two
\* workers verify the address at the same time.
HistoryAppendOnly == [][Recorded \subseteq Recorded']_vars

\* C18: whoever reads a task sees a completed count equal to the number of
\* results published so far.
AtomicPublication ==
    \A t \in TaskIds : tasks[t].completed = Cardinality(DOMAIN TaskResults(t))

----
\* Properties of the order of checks and probes within one call.

\* Where in the call's trace one of the events evs first shows, 0 if nowhere.
FirstAt(evs) ==
    IF \E i \in 1..Len(pv.trace) : pv.trace[i] \in evs
    THEN CHOOSE i \in 1..Len(pv.trace) :
            pv.trace[i] \in evs /\ \A j \in 1..(i - 1) : pv.trace[j] \notin evs
    ELSE 0

\* Nothing of ys happens in the call unless something of xs happened before.
Precedes(xs, ys) == FirstAt(ys) # 0 => (FirstAt(xs) # 0 /\ FirstAt(xs) < FirstAt(ys))

HowMany(ev) == Cardinality({i \in 1..Len(pv.trace) : pv.trace[i] = ev})

\* C19: within a call the result cache is looked up first, then the data
\* files, then the format, the blacklist and the whitelist, and all of them
\* before any DNS lookup or probe.
PrecheckOrder ==
    /\ Precedes({"service_cache", "verifier_cache"}, {"data_files"})
    /\ Precedes({"data_files"}, {"format"})
    /\ Precedes({"format"}, {"blacklist"})
    /\ Precedes({"blacklist"}, {"whitelist"})
    /\ Precedes({"whitelist"}, {"dns", "api", "browser", "smtp"})

\* C20: for a Microsoft address the probes come one after another in the
\* order API, browser, SMTP: no browser after a definitive API answer, and
\* SMTP only when every configured browser has returned without a
\* definitive outcome.
MicrosoftProbeOrder ==
    (pv.email # "none" /\ StrategyOf(pv.email) = "microsoft")
    => /\ \A i, j \in 1..Len(pv.trace) :
             i < j => /\ ~(pv.trace[i] = "browser" /\ pv.trace[j] = "api")
                      /\ ~(pv.trace[i] = "smtp" /\ pv.trace[j] \in {"api", "browser"})
       /\ pv.res.reason \in {r.reason : r \in ApiResults} => FirstAt({"browser", "smtp"}) = 0
       /\ FirstAt({"smtp"}) # 0
             => /\ pv.i = Len(cfg.browsers) + 1
                /\ HowMany("browser") >= Len(cfg.browsers)
                /\ ~Definitive(pv.last)

\* A Microsoft call that went through the API, three browsers and SMTP.
MicrosoftOrderWitness ==
    /\ pv.pc = "done" /\ pv.email = "ms"
    /\ Len(cfg.browsers) = 3
    /\ FirstAt({"api"}) # 0 /\ HowMany("browser") >= 3 /\ FirstAt({"smtp"}) # 0

----
\* Properties of the provider strategies.

\* C21: for a Microsoft address, whenever a browser at the provider's login
\* URL returns a RISKY or a CUSTOM outcome, the login at login.live.com is
\* what runs next, before any SMTP probe.
MicrosoftBrowserFallback ==
    [][(/\ pv.pc = "browser" /\ StrategyOf(pv.email) = "microsoft"
        /\ Len(pv'.trace) = Len(pv.trace) + 1 /\ pv'.pc # "raise"
        /\ pv'.got.category \in {RISKY, CUSTOM})
       => pv'.pc = "direct"]_vars

\* Where the call is while a probe of the address runs.
ProbePcs == {"api", "browser", "direct", "once", "gmail", "smtp", "custom_domain"}

\* C22: in every strategy a probe that returns VALID or INVALID ends the
\* probing: its outcome is the verdict of the call, it is what the call
\* stores and returns, and no probe runs after it.
MergeRule ==
    [][/\ (/\ pv.pc \in ProbePcs /\ Len(pv'.trace) = Len(pv.trace) + 1 /\ pv'.pc # "raise"
           /\ pv'.got.category \in {VALID, INVALID})
          => (pv'.pc = "store" /\ pv'.res = pv'.got)
       /\ (pv.got.category \in {VALID, INVALID} /\ pv'.pc # "idle")
          => /\ pv'.trace = pv.trace
             /\ pv'.res.category = pv.got.category
             /\ pv'.res.reason = pv.got.reason]_vars

\* A Microsoft call that ended at the second browser or later with INVALID,
\* the browsers before it undecided, and never reached SMTP.
MergeWitness ==
    /\ pv.pc = "done" /\ pv.email = "ms"
    /\ HowMany("browser") >= 2 /\ FirstAt({"smtp"}) = 0
    /\ pv.got.category = INVALID /\ pv.res.category = INVALID
    /\ pv.last.category \in {RISKY, CUSTOM}

\* C23: when no probe of a call returned VALID or INVALID, the call's result
\* is RISKY or CUSTOM with the reason of the last probe that ran, the
\* Microsoft acceptance on no rejection apart.
NoDefinitiveSignal ==
    (/\ pv.pc = "done" /\ pv.email # "none"
     /\ pv.got # NoResult /\ pv.got.category \notin {VALID, INVALID}
     /\ pv.res.category # "none")
    => \/ pv.res.category \in {RISKY, CUSTOM} /\ pv.res.reason = pv.got.reason
       \/ /\ StrategyOf(pv.email) = "microsoft"
          /\ pv.res.category = VALID /\ pv.res.reason = Accepted

\* C28: when the API says that the random local part exists, the domain is
\* taken for an API catch-all: the API is not asked about the address and the
\* browsers come next.
ApiCatchAllSkipsApi ==
    [][(pv.pc = "catch_all" /\ pv.random_result.category = VALID) => pv'.pc = "browser"]_vars

----
\* Properties of the Microsoft API probe and of the rate limiter's answer.

\* C27: when the API's body has an IfExistsResult of 0 or 1 the probe returns
\* VALID or INVALID; for ThrottleStatus = 1 and for every other body it
\* returns no decision and sets the domain's backoff to 60 seconds from now.
ApiThrottleHandling ==
    [][\A p \in Probers :
          (rl[p].pc = "replied" /\ rl[p].kind = "api" /\ rl'[p].pc = "idle") =>
              IF rl[p].reply.IfExistsResult \in {0, 1}
              THEN ApiVerdict(rl[p].reply).category =
                       (IF rl[p].reply.IfExistsResult = 0 THEN VALID ELSE INVALID)
              ELSE /\ ApiVerdict(rl[p].reply) = NoResult
                   /\ backoff_times'[rl[p].domain] = now + ThrottleBackoff]_vars

\* The limiter's predicate as the specification words it.
Saturated(d) ==
    Cardinality({i \in 1..Len(request_history[d]) : now - request_history[d][i] < time_window})
        >= max_requests

\* C29: whatever requests were recorded and backoffs set before, a call of
\* is_rate_limited for a domain answers true exactly when the domain's
\* backoff has not run out or at least max_requests recorded requests are
\* younger than time_window.
RateLimitedIff ==
    [][(lim'.calls # lim.calls /\ lim'.op = "is_rate_limited") =>
          (lim'.answer <=> (BackoffActive(lim'.domain) \/ Saturated(lim'.domain)))]_vars

\* The limiter answered true for a full window, no backoff being set.
RateLimitedWitness ==
    /\ lim.op = "is_rate_limited" /\ lim.answer
    /\ backoff_times[lim.domain] = NoBackoff
    /\ Len(request_history[lim.domain]) >= max_requests

----
\* Properties of the SMTP probe.

\* C24: an SMTP probe that ran out of retries at every MX host, all of them
\* timing out or refusing the connection, ends with no definitive verdict:
\* neither VALID nor INVALID.
SmtpExhaustionUndecided ==
    (sm.pc = "done" /\ sm.mx_servers > 0 /\ sm.exhausted = 1..sm.mx_servers)
    => sm.verdict.category \notin {VALID, INVALID}

SmtpRetrySchedule ==
    \A h \in sm.exhausted : sm.sleeps[h] = <<2, 4, 8>>

----
\* Properties of the history files under concurrent writers.

\* C30: when two workers have recorded and migrated the history of their
\* calls side by side, the events of both are in the history files: no
\* worker's update of a file is lost to the other's.
HistorySingleWriter ==
    (\A w \in Workers : hw[w].pc = "return")
    => \A w \in Workers : hw[w].mine \subseteq Recorded

----
\* Properties of the service's cache.

\* C31: no two threads are inside _add_to_cache, between its look at the
\* length and its insertion, at the same time.
CacheExclusive ==
    Cardinality({t \in Threads : adder[t] = "insert"}) <= 1

\* The entries of the cache c, as a set.
Entries(c) == {c[i] : i \in 1..Len(c)}

\* The oldest tenth of the cache c.
OldestTenth(c) == {c[i] : i \in 1..(Len(c) \div 10)}

\* C32: an addition to a full cache removes exactly the oldest tenth of the
\* entries and keeps every other entry, and an addition to a cache that is
\* not full removes nothing; the new entry is stored in both cases.
EvictionRule ==
    ec.adds > 0 =>
        LET kept == Entries(ec.cache) \cap Entries(ec.before) IN
        /\ CacheHas(ec.cache, ec.next - 1)
        /\ Cardinality(Entries(ec.cache)) = Cardinality(kept) + 1
        /\ IF Len(ec.before) = max_cache_size
           THEN Entries(ec.before) \ kept = OldestTenth(ec.before)
           ELSE kept = Entries(ec.before)

\* An addition that found the cache full: it now holds nine tenths of
\* max_cache_size and the new entry.
EvictionWitness ==
    /\ ec.adds > 0 /\ Len(ec.before) = max_cache_size
    /\ Len(ec.cache) = max_cache_size - RemoveCount + 1

----
\* The bounce flow.

\* A bounce naming address e has been read by process_responses.
Bounced(e) == \E i \in 1..Len(bv.inbox) : bv.inbox[i].seen /\ bv.inbox[i].address = e

\* C33: once process_responses has run, every address of the batch that a bounce was extracted for is recorded INVALID and not VALID, every other address of the batch is recorded VALID and not INVALID, and no address outside the batch is recorded.
BounceClassification ==
    bv.processed > 0 =>
        /\ \A i \in 1..Len(bv.batch) :
              LET e == bv.batch[i].email IN
              IF Bounced(e)
              THEN InSeq(e, bv.invalid_csv) /\ ~InSeq(e, bv.valid_csv)
              ELSE InSeq(e, bv.valid_csv) /\ ~InSeq(e, bv.invalid_csv)
        /\ \A a \in AllEmails :
              InSeq(a, bv.invalid_csv) \/ InSeq(a, bv.valid_csv) => InSeq(a, BatchEmails(bv.batch))

\* C38: an address start_verification found in a data file keeps that category in the batch file after process_responses, and is in no data file of another category.
PersistedCategoryKept ==
    bv.processed > 0 =>
        \A i \in 1..Len(bv.batch) :
            LET e == bv.batch[i].email IN
            bv.found[e] # "none" =>
                /\ bv.batch[i].status = bv.found[e]
                /\ \A c \in Categories \ {bv.found[e]} : ~ExistsInCategory(bv.data, c, e)

----
\* The method "smtp" without an SMTP account.

\* C34: when no SMTP account is configured, verify_email with method "smtp" that misses the cache enters the login verifier, never calls the bounce verifier, and returns the login verifier's result.
SmtpFallsBackToLogin ==
    [][\A t \in Threads :
         (th[t].method = "smtp" /\ ~cfg.smtp_accounts /\ th'[t] # th[t]) =>
             /\ (th[t].pc = "svc_check_cache" /\ ~CacheHas(result_cache, th[t].email))
                    => th'[t].pc = "lv_check_data"
             /\ th[t].pc = "svc_add_cache"
                    => /\ th[t].res.method = "login"
                       /\ th'[t].ret.status = "ok"
                       /\ th'[t].ret.category = th[t].res.category
                       /\ th'[t].ret.reason = th[t].res.reason
             /\ th'[t].ret.reason # NoVerifyEmail]_vars

\* A call with method "smtp" and no account whose login strategy has run its probes and whose result is about to be returned.
SmtpFallbackWitness ==
    \E t \in Threads :
        /\ th[t].method = "smtp" /\ ~cfg.smtp_accounts
        /\ th[t].pc = "svc_add_cache" /\ th[t].probed

----
\* Browser sessions.

\* C35: a worker has at most one browser session at a time, and none when it is outside _verify_login, whichever way the probe was left.
BrowserSessionsClosed ==
    \A w \in Workers :
        /\ br[w].sessions <= 1
        /\ br[w].pc = "idle" => br[w].sessions = 0

\* A probe that was left through an except clause has returned, and another one that could not start its driver has returned too.
BrowserCleanupWitness ==
    /\ \E w \in Workers : br[w].pc = "idle" /\ br[w].exit = "WebDriverException"
    /\ \E w \in Workers : br[w].pc = "idle" /\ br[w].exit = StartFailure

----
\* The terminal threads.

\* C36: a batch_verify call in threaded mode that is waiting for its terminal threads eventually returns, also when the verification of an address raises every time.
ThreadedBatchReturns ==
    \A c \in Callers : (tw.caller[c].pc = "join") ~> (tw.caller[c].pc = "returned")

\* C37: a batch_verify call that has returned holds a result for each of its own addresses and for no other address, also when another batch_verify call runs on the same instance.
BatchResultsExact ==
    \A c \in Callers :
        tw.caller[c].pc = "returned" =>
            tw.caller[c].results = {tw.caller[c].emails[i] : i \in 1..Len(tw.caller[c].emails)}

----
\* The scratch history.

\* C39: when verify_email has returned, the scratch file holds no entry for admin@<domain> or for the random address of the catch-all check.
ScratchOnlyInFlight ==
    sc.pc = "idle" => TempKeys(sc.temp) \cap Auxiliary = {}

====
